---- MODULE Spec2Model ----
(***************************************************************************)
(* Short-term memory of the chat backend: the per-conversation turn list   *)
(* kept in Redis, the message table of the relational store, and the       *)
(* in-process compression queue with its worker loop                       *)
(* (server/memory/short_term_memory.py, server/memory/redis_manager.py,    *)
(* server/database/repositories/conversation_repository.py,                *)
(* server/services/chat_service.py).                                       *)
(*                                                                         *)
(* Everything runs on one asyncio event loop: a handler runs atomically    *)
(* from one real suspension point to the next, so each action below is one *)
(* such stretch of code.                                                   *)
(***************************************************************************)
EXTENDS Integers, Sequences, FiniteSets, Bags, TLC

(***************************************************************************)
(* Bounds of the model.                                                    *)
(***************************************************************************)
\* chat requests served in one behaviour of Spec
MaxRequests == 4
\* chat requests served in one behaviour of SpecStore
MaxStoreRequests == 2
\* memory updates that may be outstanding at once
MaxPending == 2
\* stand-in for max_queue_size (100 in the source)
max_queue_size == 2
\* stand-in for the LTRIM window (0..99 in the source: 100 entries); like the
\* window of the source it is wider than the 10 turns a compression keeps
max_stored_turns == 12
\* turns of the conversation that exists before the first request
SeedTurns == 12
\* chat requests served in one behaviour of SpecCompress
MaxCompressRequests == 2
\* chat requests served in one behaviour of SpecChat
MaxChatRequests == 2
\* calls of process_conversation in SpecMemory
MaxMemoryCalls == 2
\* calls of process_conversation in SpecIdentity
MaxIdentityCalls == 3
\* turns written in one behaviour of SpecTokens
MaxTokenTurns == 3
\* turns written in one behaviour of SpecFormat
MaxFormatTurns == 3
\* chat requests served in one behaviour of SpecWorker
MaxWorkerRequests == 2

(***************************************************************************)
(* Program constants.                                                      *)
(***************************************************************************)
max_tokens == 3000
warning_tokens == 2500
max_concurrent_compressions == 3
\* limit passed by the chat service to get_conversation_context
context_limit == 3
\* limit passed to get_current_conversation_messages by the memory tier
db_limit == 100
\* _incremental_compression: fewer messages than this are never compressed
min_messages_to_compress == 6

(***************************************************************************)
(* Text.  A string is a sequence of runs of characters of one class:       *)
(* "cjk" (U+4E00..U+9FFF), "alpha" (other letters), "digit" (neither a     *)
(* letter nor white space) and "space".                                    *)
(***************************************************************************)
Run(cls, n) == [cls |-> cls, n |-> n]

EmptyText == << >>

SpaceText == << Run("space", 1) >>

RECURSIVE ChineseChars(_)
\* len([c for c in total_text if U+4E00 <= c <= U+9FFF])
ChineseChars(text) ==
    IF text = << >> THEN 0
    ELSE (IF Head(text).cls = "cjk" THEN Head(text).n ELSE 0)
         + ChineseChars(Tail(text))

RECURSIVE AlphaWordsFrom(_, _, _, _)
\* len([w for w in total_text.split() if w.isalpha()]): str.split() cuts at
\* white space, str.isalpha() holds of a non-empty word of letters only
\* (CJK ideographs are letters).
AlphaWordsFrom(text, i, inWord, allAlpha) ==
    IF i > Len(text)
    THEN (IF inWord /\ allAlpha THEN 1 ELSE 0)
    ELSE IF text[i].cls = "space"
         THEN (IF inWord /\ allAlpha THEN 1 ELSE 0)
              + AlphaWordsFrom(text, i + 1, FALSE, TRUE)
         ELSE AlphaWordsFrom(text, i + 1, TRUE,
                             allAlpha /\ text[i].cls \in {"cjk", "alpha"})

EnglishWords(text) == AlphaWordsFrom(text, 1, FALSE, TRUE)

RECURSIVE TotalText(_)
\* total_text += msg.get('user_message', '') + " " + msg.get('ai_response', '')
TotalText(pairs) ==
    IF pairs = << >> THEN EmptyText
    ELSE TotalText(SubSeq(pairs, 1, Len(pairs) - 1))
         \o pairs[Len(pairs)].user_message \o SpaceText
         \o pairs[Len(pairs)].ai_response

\* int(chinese_chars * 1.5 + english_words)
_count_tokens_for_messages(pairs) ==
    (3 * ChineseChars(TotalText(pairs)) + 2 * EnglishWords(TotalText(pairs)))
        \div 2

(***************************************************************************)
(* The turns the requests of the model carry.                              *)
(***************************************************************************)
Turn(u, a) == [user_message |-> u, ai_response |-> a]

\* "你好" / "hi": 5 tokens
TurnSmall == Turn(<< Run("cjk", 2) >>, << Run("alpha", 2) >>)
\* 1666 ideographs, empty reply: exactly warning_tokens
TurnWarnExact == Turn(<< Run("cjk", 1666) >>, EmptyText)
\* 1999 ideographs / "a": exactly max_tokens
TurnMaxExact == Turn(<< Run("cjk", 1999) >>, << Run("alpha", 1) >>)
\* 2000 ideographs, empty reply: max_tokens + 1
TurnOver == Turn(<< Run("cjk", 2000) >>, EmptyText)
\* a turn of the conversation that exists before the first request
TurnSeed == Turn(<< Run("cjk", 140) >>, << Run("alpha", 2), Run("digit", 1) >>)

NewTurns == {TurnSmall, TurnWarnExact, TurnMaxExact, TurnOver}

Conversations == {"c1", "c2"}

\* the requests of SpecStore: any turn to c1, a short turn to c2
StoreInputs ==
    {<<"c1", t>> : t \in NewTurns} \cup {<<"c2", TurnSmall>>}

\* the requests of Spec: a turn to c1 that asks for a high-priority task, a
\* turn to c2 that asks for a normal-priority one
QueueInputs == {<<"c1", TurnOver>>, <<"c2", TurnSmall>>}

VARIABLES
    enabled,              \* ShortTermMemory.enabled
    processor,            \* _compression_processor: not_started, sleeping, exited
    messages,             \* messages table: conversation -> rows, oldest first
    turnList,             \* Redis list conversation:<user>:<conv>, newest first
    summaries,            \* Redis keys conversation_summary:<user>:<conv>:<layer>
    compression_queue,    \* deque of task ids, left end first
    tasks,                \* every task minted so far, by id
    active_compressions,  \* ShortTermMemory.active_compressions
    pending,              \* bag of turns whose stream ended, memory update due
    hydrating,            \* get_recent_context calls that found the list empty
    requests,             \* chat requests served so far
    trimmed,              \* history: conversations whose list LTRIM has cut
    chat,                 \* the chat request being served, with what it emitted
    ltm,                  \* long-term memory: vector store, profiles, calls
    classified            \* IntentService.process_intent: the last call

vars == <<enabled, processor, messages, turnList, summaries, compression_queue,
          tasks, active_compressions, pending, hydrating, requests, trimmed,
          chat, ltm, classified>>

(***************************************************************************)
(* Relational store: the messages table.                                   *)
(***************************************************************************)
Row(role, content) == [role |-> role, content |-> content]

\* MessageRepository.create_message: INSERT of one row
create_message(rows, role, content) == Append(rows, Row(role, content))

\* ChatService.create_messages_after_stream: the user row, then the
\* assistant row; an exception of either INSERT ends the call.
create_messages_after_stream(rows, turn, outcome) ==
    CASE outcome = "user_insert_failed" -> rows
      [] outcome = "ai_insert_failed" ->
            create_message(rows, "user", turn.user_message)
      [] OTHER ->
            create_message(create_message(rows, "user", turn.user_message),
                           "assistant", turn.ai_response)

PersistOutcomes == {"created", "user_insert_failed", "ai_insert_failed"}

RECURSIVE CompletedPairs(_, _)
\* for i in range(len(messages) - 1): a user row directly followed by an
\* assistant row is one completed pair
CompletedPairs(rows, i) ==
    IF i > Len(rows) - 1 THEN << >>
    ELSE (IF rows[i].role = "user" /\ rows[i + 1].role = "assistant"
          THEN << Turn(rows[i].content, rows[i + 1].content) >>
          ELSE << >>)
         \o CompletedPairs(rows, i + 1)

\* result[-limit:] if limit > 0 else result
LastN(seq, limit) ==
    IF limit > 0 /\ Len(seq) > limit
    THEN SubSeq(seq, Len(seq) - limit + 1, Len(seq))
    ELSE seq

get_current_conversation_messages(rows, limit) ==
    LastN(CompletedPairs(rows, 1), limit)

(***************************************************************************)
(* Redis: the turn list of one conversation.                               *)
(***************************************************************************)
Entry(message, response) == [message |-> message, response |-> response]

LPush(list, e) == << e >> \o list

\* LTRIM key start stop, both ends inclusive and counted from 0
LTrim(list, start, stop) ==
    SubSeq(list, start + 1, IF stop + 1 < Len(list) THEN stop + 1 ELSE Len(list))

\* store_conversation without its LTRIM
store_conversation_NoTrim(list, message, response, redis_ok) ==
    IF redis_ok THEN LPush(list, Entry(message, response)) ELSE list

\* RedisManager.store_conversation: LPUSH, then LTRIM to the window; a Redis
\* error is caught and nothing is stored.
store_conversation(list, message, response, redis_ok) ==
    IF redis_ok
    THEN LTrim(LPush(list, Entry(message, response)), 0, max_stored_turns - 1)
    ELSE list

\* RedisManager.get_recent_conversations: LRANGE key 0 limit-1, reversed so
\* that the oldest of them comes first
get_recent_conversations(list, limit) ==
    LET range == LTrim(list, 0, limit - 1)
    IN  [i \in 1..Len(range) |-> range[Len(range) + 1 - i]]

\* message_key = f"{message}|{response}"
MessageKey(e) == e.message \o << Run("pipe", 1) >> \o e.response

\* ShortTermMemory._format_conversations: the conversations whose key was
\* not seen before, in the order of the list; each is rendered as two lines
_format_conversations(conversations) ==
    LET unique == {i \in 1..Len(conversations) :
                      \A j \in 1..(i - 1) :
                          MessageKey(conversations[j])
                              # MessageKey(conversations[i])}
    IN  [k \in 1..Cardinality(unique) |->
            conversations[CHOOSE i \in unique :
                              Cardinality({j \in unique : j <= i}) = k]]

\* what LTRIM cut: the list was already at the window
CutByTrim(list, redis_ok) == redis_ok /\ Len(list) + 1 > max_stored_turns

RECURSIVE StoreAll(_, _, _)
\* for msg in recent_messages: await redis_manager.store_conversation(...)
StoreAll(list, pairs, redis_ok) ==
    IF pairs = << >> THEN list
    ELSE StoreAll(store_conversation(list, Head(pairs).user_message,
                                     Head(pairs).ai_response, redis_ok),
                  Tail(pairs), redis_ok)

(***************************************************************************)
(* The compression queue: a collections.deque of task dicts.               *)
(***************************************************************************)
Task(id, conversation_id, priority) ==
    [id |-> id, conversation_id |-> conversation_id, priority |-> priority,
     status |-> "queued"]

\* the size check with > for >=
QueueIsFull_OffByOne(queue) == Len(queue) > max_queue_size

\* if len(self.compression_queue) >= self.max_queue_size
QueueIsFull(queue) == Len(queue) >= max_queue_size

\* for i, queued_task in enumerate(queue): the first index whose task is of
\* normal priority, 0 when there is none
FirstNormalIndex(queue) ==
    IF \E i \in 1..Len(queue) : queue[i].priority = "normal"
    THEN CHOOSE i \in 1..Len(queue) :
            /\ queue[i].priority = "normal"
            /\ \A k \in 1..(i - 1) : queue[k].priority # "normal"
    ELSE 0

\* self.compression_queue.pop(i): collections.deque.pop() takes no argument,
\* the call raises TypeError and the deque is left as it was
DequePopIndex(queue, i) ==
    [raised |-> TRUE, queue |-> queue, popped |-> 0]

\* a popleft() that reads the left end and leaves it in the deque
PopLeft_Peek(queue) == queue

\* self.compression_queue.popleft()
PopLeft(queue) == Tail(queue)

\* a full-queue branch that, finding no normal task, discards the left end
MakeRoomForHigh_DiscardHead(queue) ==
    [outcome |-> "room", queue |-> Tail(queue), evicted |-> Head(queue).id]

\* the full-queue branch of a high-priority task: look for a normal task to
\* discard; none found: the new task is refused ("cannot add")
MakeRoomForHigh(queue) ==
    IF FirstNormalIndex(queue) # 0
    THEN LET r == DequePopIndex(queue, FirstNormalIndex(queue))
         IN  IF r.raised
             THEN [outcome |-> "raised", queue |-> queue, evicted |-> 0]
             ELSE [outcome |-> "room", queue |-> r.queue, evicted |-> r.popped]
    ELSE [outcome |-> "refused", queue |-> queue, evicted |-> 0]

\* the full-queue branch of a normal-priority task: popleft()
MakeRoomForNormal(queue) ==
    [outcome |-> "room", queue |-> PopLeft(queue), evicted |-> Head(queue).id]

\* appendleft() whatever the priority
AddTask_AlwaysAppendLeft(queue, task) == << task >> \o queue

\* append() whatever the priority
AddTask_AlwaysAppend(queue, task) == Append(queue, task)

\* appendleft() for a high-priority task, append() for a normal one
AddTask(queue, task) ==
    IF task.priority = "high" THEN << task >> \o queue ELSE Append(queue, task)

\* ShortTermMemory._queue_compression_task, under compression_lock; the
\* except clause of the method swallows what the body raises.
\* outcome: "queued", "refused" (full of high tasks) or "raised".
_queue_compression_task(queue, task) ==
    LET room == IF QueueIsFull(queue)
                THEN IF task.priority = "high"
                     THEN MakeRoomForHigh(queue)
                     ELSE MakeRoomForNormal(queue)
                ELSE [outcome |-> "room", queue |-> queue, evicted |-> 0]
    IN  IF room.outcome = "room"
        THEN [outcome |-> "queued", queue |-> AddTask(room.queue, task),
              evicted |-> room.evicted]
        ELSE [outcome |-> room.outcome, queue |-> queue, evicted |-> 0]

(***************************************************************************)
(* smart_store_conversation: which task, if any, a token estimate asks for *)
(***************************************************************************)
\* the warning threshold with >= for >
NeedsCompression_AtThreshold(total_tokens) == total_tokens >= warning_tokens

\* if total_tokens > self.warning_tokens
NeedsCompression(total_tokens) == total_tokens > warning_tokens

\* the priority threshold with >= for >
PriorityFor_AtThreshold(total_tokens) ==
    IF total_tokens >= max_tokens THEN "high" ELSE "normal"

\* priority = 'high' if total_tokens > self.max_tokens else 'normal'
PriorityFor(total_tokens) ==
    IF total_tokens > max_tokens THEN "high" ELSE "normal"

(***************************************************************************)
(* Summaries.  None stands for Python's None.                              *)
(***************************************************************************)
None == "None"

Layers == {"L1", "L2", "L3"}

\* the keyword parameters of AIService.generate_response
GenerateResponseParams ==
    {"user_message", "intent", "file_content", "web_content", "search_results",
     "user_identity", "contextual_prompt", "short_term_context"}

\* the keywords the summary code passes to ai_service.generate_response
SummaryCallKeywords == {"user_message", "intent", "full_context"}

\* a call with a keyword the callee does not declare raises TypeError;
\* otherwise the result is what the LLM gives: "text", "empty" or "error"
generate_response(keywords, llm) ==
    IF keywords \subseteq GenerateResponseParams THEN llm ELSE "error"

LLMOutcomes == {"text", "empty", "error"}

\* ShortTermMemory._generate_layer_summary: None for no messages, for an
\* exception of the call and for an empty reply
_generate_layer_summary(layer, msgs, llm) ==
    IF msgs = << >> THEN None
    ELSE IF generate_response(SummaryCallKeywords, llm) = "text"
         THEN layer
         ELSE None

\* ShortTermMemory._generate_summary_for_messages: "" instead of None
_generate_summary_for_messages(msgs, llm) ==
    IF msgs = << >> THEN ""
    ELSE IF generate_response(SummaryCallKeywords, llm) = "text"
         THEN "summary"
         ELSE ""

\* self.summary_layers[layer]['max_turns']
layer_max_turns(layer) ==
    CASE layer = "L1" -> 2 [] layer = "L2" -> 5 [] OTHER -> 10

\* max(L1, L2, L3 max_turns)
max_keep_turns ==
    CHOOSE m \in {layer_max_turns(l) : l \in Layers} :
        \A l \in Layers : layer_max_turns(l) <= m

\* messages[:-max_keep_turns] when there are more than max_keep_turns
MessagesToSummarize(pairs) ==
    IF Len(pairs) > max_keep_turns
    THEN SubSeq(pairs, 1, Len(pairs) - max_keep_turns)
    ELSE << >>

\* a level is tried when its cap fits into the turns to summarize
LayersAttempted_ByCap(n) == {l \in Layers : layer_max_turns(l) <= n}

\* the levels _incremental_compression calls _generate_layer_summary for,
\* given len(messages_to_summarize): L3 and L2 from 8 turns on, L2 from 3 on,
\* L1 from 1 on
LayersAttempted(n) ==
    {l \in Layers : \/ l = "L3" /\ n >= 8
                    \/ l = "L2" /\ n >= 3
                    \/ l = "L1" /\ n >= 1}

\* the turns handed to _generate_layer_summary for a level
LayerInput(l, ts) ==
    CASE l = "L3" -> ts
      [] l = "L2" -> IF Len(ts) >= 8 THEN LastN(ts, 5) ELSE ts
      [] OTHER -> LastN(ts, 2)

\* the levels a job of this many turns tries
AttemptedFor(pairs) ==
    IF Len(pairs) < min_messages_to_compress THEN {}
    ELSE LayersAttempted(Len(MessagesToSummarize(pairs)))

\* ShortTermMemory._incremental_compression up to new_summaries: the layers
\* for which a summary was produced
NewSummaries(pairs, llm) ==
    LET ts == MessagesToSummarize(pairs)
    IN  IF Len(pairs) < min_messages_to_compress \/ ts = << >> THEN {}
        ELSE {l \in LayersAttempted(Len(ts)) :
                _generate_layer_summary(l, LayerInput(l, ts), llm) # None}

\* the levels in the order of the statements of _incremental_compression
LayerOrder == << "L3", "L2", "L1" >>

\* the calls of _generate_layer_summary one job makes, in their order: the
\* level, the third argument (existing_summaries.get(level), the summary of
\* that level read before the first call) and what the call returned
SummaryCalls(existing, pairs, llm) ==
    LET ts == MessagesToSummarize(pairs)
        tried == IF Len(pairs) < min_messages_to_compress THEN << >>
                 ELSE SelectSeq(LayerOrder,
                                LAMBDA l : l \in LayersAttempted(Len(ts)))
    IN  [i \in 1..Len(tried) |->
            [layer |-> tried[i],
             existing_summary |-> IF tried[i] \in existing THEN tried[i]
                                  ELSE None,
             summary |-> _generate_layer_summary(
                             tried[i], LayerInput(tried[i], ts), llm)]]

\* a cleanup that cuts the list down to the turns to keep
_cleanup_old_messages_Trim(list, keep) == LTrim(list, 0, Len(keep) - 1)

\* ShortTermMemory._cleanup_old_messages: DEL of the keys
\* conversation:<user>:<conv>:<message id>, one per listed turn that is not
\* kept; the turns live in the list conversation:<user>:<conv>, which no DEL
\* names, so the list stays as it is
_cleanup_old_messages(list, keep) == list

\* ShortTermMemory._compress_and_store (max_recent_turns = 3)
_compress_and_store(list, pairs, llm, redis_ok) ==
    LET recent == LastN(pairs, 3)
        old    == IF Len(pairs) > 3 THEN SubSeq(pairs, 1, Len(pairs) - 3)
                  ELSE << >>
    IN  IF old = << >> THEN StoreAll(list, recent, redis_ok)
        ELSE IF _generate_summary_for_messages(old, llm) # ""
             THEN StoreAll(list, recent, redis_ok)
             ELSE list

(***************************************************************************)
(* The task registry: every task ever minted, with where it is in its life *)
(* (stage) and, once its coroutine has read the table, how many rows it    *)
(* saw; once it is over, what the LLM answered to it (reply) and the       *)
(* levels it called _generate_layer_summary for (attempted).               *)
(***************************************************************************)
TaskEntry(conversation_id, priority, stage) ==
    [conversation_id |-> conversation_id, priority |-> priority,
     stage |-> stage, rows |-> 0, reply |-> None, attempted |-> {},
     calls |-> << >>]

\* the job is over and a summary call of it raised: the exception is caught
\* in _generate_layer_summary and logged
JobFailed(id) ==
    /\ tasks[id].stage = "done"
    /\ tasks[id].attempted # {}
    /\ generate_response(SummaryCallKeywords, tasks[id].reply) = "error"

InFlight == {id \in 1..Len(tasks) : tasks[id].stage \in {"scheduled", "compressing"}}

SeedRows(n) ==
    [i \in 1..(2 * n) |->
        IF i % 2 = 1 THEN Row("user", TurnSeed.user_message)
        ELSE Row("assistant", TurnSeed.ai_response)]

SeedList(n) == [i \in 1..n |-> Entry(TurnSeed.user_message, TurnSeed.ai_response)]

Min(a, b) == IF a < b THEN a ELSE b

\* no chat request has been served yet
\* ChatRequest.message: Field(..., min_length=1, max_length=4000)
min_length == 1
max_length == 4000

\* the JSON body of a chat request: whether it has the two required fields
\* and how many characters the message has
Body(has_message, message_length, has_conversationId) ==
    [has_message |-> has_message, message_length |-> message_length,
     has_conversationId |-> has_conversationId]

NoBody == Body(FALSE, 0, FALSE)

\* ChatRequest without the max_length of its message
ChatRequest_NoMaxLength(body) ==
    /\ body.has_message
    /\ body.message_length >= min_length
    /\ body.has_conversationId

\* ChatRequest(**body) validates: both required fields are there and the
\* message has between min_length and max_length characters
ChatRequest(body) ==
    /\ body.has_message
    /\ body.message_length >= min_length
    /\ body.message_length <= max_length
    /\ body.has_conversationId

NoChat ==
    [body |-> NoBody, status |-> 0,
     path |-> "none", intent |-> "none", phase |-> "idle", conv |-> "none",
     trace |-> << >>, chunks |-> << >>, reply |-> << >>, persisted |-> "none",
     pre_error |-> FALSE, stream_error |-> FALSE, sandbox |-> "none",
     escaped |-> FALSE]

(***************************************************************************)
(* Long-term memory.  Scores are in thousandths.                           *)
(***************************************************************************)
Users == {"u1", "u2"}

\* LongTermMemory.min_importance_score (0.6)
min_importance_score == 600

Max(a, b) == IF a > b THEN a ELSE b

\* a turn as the long-term tier sees it: the message and the reply, the
\* length of the two, the intent, how many keywords of each list occur in
\* them, whether a keyword of ProfileService.preference_keywords occurs in
\* the message (signal), what the embedding of the turn is about (topic) and
\* what an extraction would read out of the message (says)
MemoryTurn(message, reply, length, intent, high, medium, personal, strong, moderate, signal, topic, says) ==
    [message |-> message, reply |-> reply, length |-> length,
     intent |-> intent, high |-> high, medium |-> medium, low |-> 0,
     personal |-> personal, strong |-> strong, moderate |-> moderate,
     signal |-> signal, topic |-> topic, says |-> says]

_calculate_length_score(total_length) ==
    IF total_length > 1000 THEN 250
    ELSE IF total_length > 500 THEN 200
    ELSE IF total_length > 200 THEN 150
    ELSE IF total_length > 100 THEN 100
    ELSE 50

\* self.intent_weights.get(intent, 0.1)
_calculate_intent_score(intent) ==
    CASE intent \in {"search", "web", "file"} -> 400
      [] intent \in {"code", "image"} -> 300
      [] intent \in {"greeting", "goodbye"} -> 50
      [] OTHER -> 100

_calculate_keyword_score(high, medium, low) ==
    Max(0, Min(150, high * 30) + Min(50, medium * 10) - Min(20, low * 5))

_calculate_personal_score(personal_count) ==
    IF personal_count >= 3 THEN 100
    ELSE IF personal_count >= 2 THEN 70
    ELSE IF personal_count >= 1 THEN 50
    ELSE 0

_calculate_emotion_score(strong, moderate) ==
    Min(50, (IF strong THEN 30 ELSE 0) + (IF moderate THEN 20 ELSE 0))

\* the context handed over has turn_count 1 and no user_activity_score: only
\* the hour of the day counts
_calculate_context_score(work_hours) ==
    Min(100, IF work_hours THEN 20 ELSE 0)

calculate_conversation_importance(t, work_hours) ==
    Min(1000, Max(0,
        _calculate_length_score(t.length) + _calculate_intent_score(t.intent)
        + _calculate_keyword_score(t.high, t.medium, t.low)
        + _calculate_personal_score(t.personal)
        + _calculate_emotion_score(t.strong, t.moderate)
        + _calculate_context_score(work_hours)))

(***************************************************************************)
(* The user profile: the JSON document under profile:<user>.  An identity  *)
(* field that is None stands for a key the document does not have.         *)
(***************************************************************************)
IdentityFields == {"name", "location"}

NoIdentity == [f \in IdentityFields |-> None]

\* what an extraction returns; NoExtraction is the empty JSON object
Extraction(identity, preferences, interests) ==
    [identity |-> identity, preferences |-> preferences,
     interests |-> interests]

NoExtraction == Extraction(NoIdentity, << >>, << >>)

ExName == Extraction([NoIdentity EXCEPT !.name = "zhangsan"], << >>, << >>)

ExHome == Extraction([NoIdentity EXCEPT !.location = "beijing"], << >>, << >>)

ExCoffee ==
    Extraction(NoIdentity, << "coffee", "no_sweets", "coffee" >>, << "film" >>)

ExTea ==
    Extraction([NoIdentity EXCEPT !.name = "lisi"], << "tea", "coffee" >>,
               << "travel", "film" >>)

Extractions == {ExName, ExHome, ExCoffee, ExTea}

\* redis_manager.get_user_profile of a user without a document: {}
EmptyProfile ==
    [identity |-> NoIdentity, preferences |-> << >>, interests |-> << >>]

InList(x, list) == \E i \in 1..Len(list) : list[i] = x

\* a merge that appends what is new without looking at the list
MergeList_Append(existing, new) == existing \o new

\* for x in new: if x not in existing: existing.append(x)
RECURSIVE MergeList(_, _)
MergeList(existing, new) ==
    IF new = << >> THEN existing
    ELSE MergeList(IF InList(Head(new), existing) THEN existing
                   ELSE Append(existing, Head(new)),
                   Tail(new))

\* ProfileService._update_user_profile between its read and its write:
\* identity by dict.update, preferences and interests by MergeList
MergeProfile(existing, new_data) ==
    [identity |-> [f \in IdentityFields |->
                      IF new_data.identity[f] # None THEN new_data.identity[f]
                      ELSE existing.identity[f]],
     preferences |-> MergeList(existing.preferences, new_data.preferences),
     interests |-> MergeList(existing.interests, new_data.interests)]

\* the keywords ProfileService._extract_with_ai passes to generate_response
ExtractCallKeywords ==
    {"user_message", "intent", "file_content", "web_content",
     "search_results", "full_context"}

\* ProfileService._extract_with_ai: the reply parsed as JSON; {} when the
\* call raises or the reply is no JSON
_extract_with_ai(t, llm) ==
    IF generate_response(ExtractCallKeywords, llm) = "text" THEN t.says
    ELSE NoExtraction

\* ProfileService.extract_user_preferences: the profile it leaves behind
extract_user_preferences(profile, t, llm) ==
    IF ~t.signal THEN profile
    ELSE IF _extract_with_ai(t, llm) = NoExtraction THEN profile
    ELSE MergeProfile(profile, _extract_with_ai(t, llm))

(***************************************************************************)
(* The vector store: the points of the collection semantic_memory.         *)
(***************************************************************************)
Point(user, t, importance) ==
    [user_id |-> user, content |-> <<t.message, t.reply>>, topic |-> t.topic,
     importance_score |-> importance]

\* the embedding service: a vector, here what the text is about, or nothing
EmbedOutcomes == {"vector", "empty"}

\* LongTermMemory._store_semantic_memory: the id of the new point, "" when
\* the embedding is empty or the upsert fails
_store_semantic_memory(embed, qdrant_ok) ==
    IF embed = "vector" /\ qdrant_ok THEN "uuid" ELSE ""

\* a search without the filter on user_id
search_semantic_memory_NoFilter(points, topic, user, qdrant_ok) ==
    IF qdrant_ok THEN {p \in points : p.topic = topic} ELSE {}

\* QdrantManager.search_semantic_memory: the points of the user whose
\* similarity to the query reaches the threshold, [] when the search fails
search_semantic_memory(points, topic, user, qdrant_ok) ==
    IF qdrant_ok
    THEN {p \in points : p.user_id = user /\ p.topic = topic}
    ELSE {}

\* _merge_and_rank_results: one result per content, the one that scores
\* highest (same similarity and age here: the more important one)
Deduplicated(results) ==
    {p \in results :
        \A q \in results :
            q.content = p.content => q.importance_score <= p.importance_score}

\* final_results[:limit] of the results sorted by score
RECURSIVE TopResults(_, _)
TopResults(results, limit) ==
    IF limit = 0 \/ results = {} THEN {}
    ELSE LET best == CHOOSE p \in results :
                        \A q \in results :
                            q.importance_score <= p.importance_score
         IN  {best} \cup TopResults(results \ {best}, limit - 1)

\* SemanticSearchService.search_semantic_memories; nothing writes to the
\* collection knowledge_graph, whose search adds no result
search_semantic_memories(points, topic, user, limit, embed, qdrant_ok) ==
    IF embed = "empty" THEN {}
    ELSE TopResults(Deduplicated(
             search_semantic_memory(points, topic, user, qdrant_ok)), limit)

\* the methods of SemanticSearchService
SemanticSearchMethods ==
    {"search_semantic_memories", "_merge_and_rank_results",
     "_calculate_comprehensive_score", "get_memory_timeline", "health_check"}

\* LongTermMemory.search_relevant_memories: the semantic results and those
\* of search_by_intent; an exception, the AttributeError of a method the
\* service does not have included, gives no memories
search_relevant_memories(points, topic, user, limit, embed, qdrant_ok) ==
    IF "search_by_intent" \in SemanticSearchMethods
    THEN search_semantic_memories(points, topic, user, limit, embed, qdrant_ok)
    ELSE {}

\* UnifiedMemoryManager._format_long_term_memories: one line per memory,
\* at most 3, each the importance and the content
_format_long_term_memories(memories) ==
    {[prefix |-> p.importance_score, content |-> p.content] :
        p \in TopResults(memories, 3)}

\* a gather whose first exception ends the call
get_conversation_context_FailFast(short_failed, long_failed, profile_failed, recent, memories, profile) ==
    IF short_failed \/ long_failed \/ profile_failed
    THEN [short_block |-> << >>, memories |-> {},
          profile_block |-> EmptyProfile, returned |-> FALSE]
    ELSE [short_block |-> recent, memories |-> memories,
          profile_block |-> profile, returned |-> TRUE]

\* UnifiedMemoryManager.get_conversation_context: the three reads under
\* gather(return_exceptions=True); a read that fails gives its empty value
\* and the call returns what the others gave
get_conversation_context(short_failed, long_failed, profile_failed, recent, memories, profile) ==
    [short_block |-> IF short_failed THEN << >> ELSE recent,
     memories |-> IF long_failed THEN {} ELSE memories,
     profile_block |-> IF profile_failed THEN EmptyProfile ELSE profile,
     returned |-> TRUE]

\* no call of the facade yet
NoCall ==
    [op |-> "none", user |-> "none", text |-> "none", importance |-> 0,
     source |-> "none",
     short_failed |-> FALSE, long_failed |-> FALSE, profile_failed |-> FALSE,
     embed |-> "none", stored |-> FALSE, memory_id |-> "",
     found |-> {}, memories |-> {}, long_block |-> {}, short_block |-> << >>,
     profile_block |-> EmptyProfile, returned |-> FALSE]

\* one call of _update_user_profile: not begun, between read and write
\* (read), or over (written)
NoUpdate ==
    [stage |-> "idle", user |-> "none", data |-> NoExtraction,
     existing |-> EmptyProfile, before |-> EmptyProfile]

UpdateSlots == {1, 2}

NoMemory ==
    [vectors |-> {}, profile |-> [u \in Users |-> EmptyProfile],
     said |-> [u \in Users |-> << >>], last |-> NoCall,
     updates |-> [k \in UpdateSlots |-> NoUpdate]]

(***************************************************************************)
(* Intent classification.  A text is the sequence of its parts; the parts  *)
(* the code looks for are "anti_crawler" (反爬虫), "security_check"        *)
(* (安全验证) and "error_colon" (错误：).                                  *)
(***************************************************************************)
Contains(text, part) == \E i \in 1..Len(text) : text[i] = part

\* max_retries of WebAnalyzer.analyze_web_page
max_retries == 3

\* how one attempt to fetch the page ends
FetchOutcomes == {"page", "anti_crawler", "timeout", "http_status", "other"}

\* an exception class without __str__: str(e) of a keyword-only
\* construction is empty
HTTPExceptionText_Empty(status_code, detail) == << >>

\* str() of HTTPException(status_code, detail): "<status_code>: <detail>"
HTTPExceptionText(status_code, detail) == <<status_code, ":">> \o detail

\* the ValueError of the anti-crawler check, wrapped by the last except
\* clause like any other exception
AntiCrawlerNotice ==
    <<"page_analysis_failed", "cannot_read_page", "anti_crawler", "title">>

\* WebAnalyzer.analyze_web_page: the first attempt that gets the page ends
\* the loop; every failure before the last attempt is retried; the last
\* attempt raises HTTPException.  The result is "page" or the text of the
\* exception.
analyze_web_page(attempts) ==
    IF \E i \in 1..max_retries : attempts[i] = "page"
    THEN [ok |-> TRUE, error |-> << >>]
    ELSE [ok |-> FALSE,
          error |->
            CASE attempts[max_retries] = "anti_crawler" ->
                    HTTPExceptionText("400", AntiCrawlerNotice)
              [] attempts[max_retries] = "timeout" ->
                    HTTPExceptionText("408", <<"request_timed_out">>)
              [] attempts[max_retries] = "http_status" ->
                    HTTPExceptionText("400", <<"cannot_access_page",
                                               "status_code">>)
              [] OTHER ->
                    HTTPExceptionText("400", <<"page_analysis_failed",
                                               "reason">>)]

\* what the LLM answers to the intent prompt: a JSON object naming an
\* intent, one whose confidence is no number, prose that mentions an
\* intent, or nothing because the call raised
IntentReplies ==
    {"json_search", "json_code", "json_normal", "json_other",
     "json_bad_confidence", "text_search", "text_code", "text_plain",
     "raised"}

\* LLMBasedIntentService.analyze_with_llm: the intent of the JSON object
\* or the one the prose mentions; normal when the call raises and when
\* float() rejects the confidence (the outer except clause catches both)
analyze_with_llm(reply) ==
    IF generate_response(GenerateResponseParams,
                         IF reply = "raised" THEN "error" ELSE "text")
          = "error"
    THEN "normal"
    ELSE CASE reply \in {"json_search", "text_search"} -> "search"
           [] reply \in {"json_code", "text_code"} -> "code"
           [] reply = "json_other" -> "other"
           [] OTHER -> "normal"

\* a search whose failure ends the classification
search_intent_Raise(message, search_ok) ==
    [intent |-> "search", content |-> message, searched |-> search_ok,
     returned |-> search_ok]

\* process_intent, the branch of the search intent: the results, or normal
\* when search_service.search raises
search_intent(message, search_ok) ==
    [intent |-> IF search_ok THEN "search" ELSE "normal",
     content |-> message, searched |-> search_ok, returned |-> TRUE]

\* LLMBasedIntentService.process_intent: attachments first, then a URL in
\* the message, then the LLM
process_intent(attachments, has_url, attempts, reply, search_ok) ==
    LET message == <<"message">>
        web == analyze_web_page(attempts)
        llm_intent == analyze_with_llm(reply)
    IN  CASE attachments \in {"url", "both"} ->
                [intent |-> "web", content |-> <<"attachment_content">>,
                 searched |-> FALSE, returned |-> TRUE]
          [] attachments = "file" ->
                [intent |-> "file", content |-> <<"file", "filename",
                                                  "attachment_content">>,
                 searched |-> FALSE, returned |-> TRUE]
          [] attachments = "none" /\ has_url ->
                [intent |-> IF web.ok \/ Contains(web.error, "anti_crawler")
                                     \/ Contains(web.error, "security_check")
                            THEN "web" ELSE "normal",
                 content |->
                    IF web.ok THEN <<"title_colon", "title", "content_colon",
                                     "content">>
                    ELSE IF \/ Contains(web.error, "anti_crawler")
                            \/ Contains(web.error, "security_check")
                         THEN <<"error_colon">> \o web.error
                                  \o <<"original_question">> \o message
                         ELSE <<"cannot_access_page", "url", "error_colon">>
                                  \o web.error \o message,
                 searched |-> FALSE, returned |-> TRUE]
          [] OTHER ->
                IF llm_intent = "search"
                THEN search_intent(message, search_ok)
                ELSE [intent |-> IF llm_intent = "code" THEN "code"
                                 ELSE "normal",
                      content |-> message, searched |-> FALSE,
                      returned |-> TRUE]

\* no call of process_intent yet
NoIntent ==
    [input |-> "none", attempts |-> << >>, reply |-> "none",
     search_ok |-> TRUE, intent |-> "none", content |-> << >>,
     searched |-> FALSE, returned |-> FALSE]

Init ==
    /\ enabled = TRUE
    /\ processor = "not_started"
    /\ messages = [c \in Conversations |->
                     IF c = "c2" THEN SeedRows(SeedTurns) ELSE << >>]
    /\ turnList = [c \in Conversations |->
                     IF c = "c2" THEN SeedList(Min(SeedTurns, max_stored_turns))
                     ELSE << >>]
    /\ summaries = {}
    /\ compression_queue = << >>
    /\ tasks = << >>
    /\ active_compressions = 0
    /\ pending = EmptyBag
    /\ hydrating = {}
    /\ requests = 0
    /\ trimmed = {}
    /\ chat = NoChat
    /\ ltm = NoMemory
    /\ classified = NoIntent

(***************************************************************************)
(* Actions.                                                                *)
(***************************************************************************)
\* ChatService._finalize_stream_response up to its yields: the two rows are
\* inserted, message_created and end are handed to the client.
FinalizeStreamResponse(c, turn, outcome) ==
    /\ BagCardinality(pending) < MaxPending
    /\ messages' = [messages EXCEPT ![c] =
                        create_messages_after_stream(@, turn, outcome)]
    /\ pending' = pending (+) SetToBag({<<c, turn>>})
    /\ requests' = requests + 1
    /\ UNCHANGED <<enabled, processor, turnList, summaries, compression_queue,
                   tasks, active_compressions, hydrating, trimmed, chat>>
    /\ UNCHANGED <<ltm, classified>>

\* the registry after _queue_compression_task: the new task, and the stage
\* of the task it displaced
Registered(r, task) ==
    Append([id \in 1..Len(tasks) |->
               IF id = r.evicted THEN [tasks[id] EXCEPT !.stage = "evicted"]
               ELSE tasks[id]],
           TaskEntry(task.conversation_id, task.priority,
                     CASE r.outcome = "queued" -> "queued"
                       [] r.outcome = "refused" -> "refused"
                       [] OTHER -> "raised"))

\* what ShortTermMemory.smart_store_conversation does to the tier: the
\* worker is started, the turn is pushed onto the list, the table is read
\* and a compression task is asked for when the estimate is over the warning
SmartStoreEffect(c, turn, redis_ok) ==
    IF ~enabled
       THEN UNCHANGED <<processor, turnList, trimmed, compression_queue, tasks>>
       ELSE LET all_messages ==
                    get_current_conversation_messages(messages[c], db_limit)
                total_tokens == _count_tokens_for_messages(all_messages)
                task == Task(Len(tasks) + 1, c, PriorityFor(total_tokens))
                r == _queue_compression_task(compression_queue, task)
            IN  /\ processor' = IF processor = "not_started" THEN "sleeping"
                                ELSE processor
                /\ turnList' = [turnList EXCEPT ![c] =
                       store_conversation(@, turn.user_message,
                                          turn.ai_response, redis_ok)]
                /\ trimmed' = IF CutByTrim(turnList[c], redis_ok)
                              THEN trimmed \cup {c} ELSE trimmed
                /\ IF NeedsCompression(total_tokens)
                   THEN /\ compression_queue' = r.queue
                        /\ tasks' = Registered(r, task)
                   ELSE UNCHANGED <<compression_queue, tasks>>

\* ChatService.save_conversation_to_memory -> process_conversation ->
\* ShortTermMemory.smart_store_conversation, which has no suspension point.
\* The turns of these requests (intent normal or code, no keyword in them)
\* score below min_importance_score: the long-term tier stores nothing.
smart_store_conversation(c, turn, redis_ok) ==
    /\ BagIn(<<c, turn>>, pending)
    /\ pending' = pending (-) SetToBag({<<c, turn>>})
    /\ SmartStoreEffect(c, turn, redis_ok)
    /\ UNCHANGED <<enabled, messages, summaries, active_compressions,
                   hydrating, requests>>

\* the memory update of a request whose stream is not followed here
SmartStoreConversation(c, turn, redis_ok) ==
    /\ smart_store_conversation(c, turn, redis_ok)
    /\ UNCHANGED chat
    /\ UNCHANGED <<ltm, classified>>

\* ShortTermMemory.get_recent_context up to its first suspension: the list is
\* read and found empty
GetRecentContextBegin(c) ==
    /\ enabled
    /\ c \notin hydrating
    /\ turnList[c] = << >>
    /\ hydrating' = hydrating \cup {c}
    /\ UNCHANGED <<enabled, processor, messages, turnList, summaries,
                   compression_queue, tasks, active_compressions, pending,
                   requests, trimmed, chat>>
    /\ UNCHANGED <<ltm, classified>>

\* the list get_recent_context leaves behind when it found it empty: with no
\* summary either, the last context_limit turns of the table are written to it
HydratedList(c, llm, redis_ok) ==
    LET recent_messages ==
            get_current_conversation_messages(messages[c], context_limit)
        has_summary == redis_ok /\ \E l \in Layers : <<c, l>> \in summaries
    IN  IF has_summary \/ recent_messages = << >> THEN turnList[c]
        ELSE IF _count_tokens_for_messages(recent_messages) > max_tokens
             THEN _compress_and_store(turnList[c], recent_messages,
                                      llm, redis_ok)
             ELSE StoreAll(turnList[c], recent_messages, redis_ok)

\* get_recent_context after the summaries were read
GetRecentContextHydrate(c, llm, redis_ok) ==
    /\ c \in hydrating
    /\ hydrating' = hydrating \ {c}
    /\ LET recent_messages ==
               get_current_conversation_messages(messages[c], context_limit)
           new_list == HydratedList(c, llm, redis_ok)
       IN  /\ turnList' = [turnList EXCEPT ![c] = new_list]
           /\ trimmed' = IF /\ new_list # turnList[c]
                            /\ Len(turnList[c]) + Len(recent_messages)
                                  > max_stored_turns
                         THEN trimmed \cup {c} ELSE trimmed
    /\ UNCHANGED <<enabled, processor, messages, summaries, compression_queue,
                   tasks, active_compressions, pending, requests, chat>>
    /\ UNCHANGED <<ltm, classified>>

\* the test of the loop without the concurrency gate
CanDequeue_NoGate == compression_queue # << >>

\* if self.active_compressions < self.max_concurrent_compressions
\*    and self.compression_queue
CanDequeue ==
    /\ active_compressions < max_concurrent_compressions
    /\ compression_queue # << >>

\* _compression_processor, one round of the loop that takes a task:
\* popleft(), status 'processing', the counter goes up, the coroutine of the
\* task is scheduled
ProcessorDequeue ==
    /\ processor = "sleeping"
    /\ enabled
    /\ CanDequeue
    /\ compression_queue' = PopLeft(compression_queue)
    /\ tasks' = [tasks EXCEPT ![Head(compression_queue).id].stage = "scheduled"]
    /\ active_compressions' = active_compressions + 1
    /\ UNCHANGED <<enabled, processor, messages, turnList, summaries, pending,
                   hydrating, requests, trimmed, chat>>
    /\ UNCHANGED <<ltm, classified>>

\* _compression_processor wakes up from its sleep and finds the tier
\* disabled: the test of its while fails and the coroutine returns
ProcessorExit ==
    /\ processor = "sleeping"
    /\ ~enabled
    /\ processor' = "exited"
    /\ UNCHANGED <<enabled, messages, turnList, summaries, compression_queue,
                   tasks, active_compressions, pending, hydrating, requests,
                   trimmed, chat>>
    /\ UNCHANGED <<ltm, classified>>

\* UnifiedMemoryManager.configure(short_term_enabled=b): the flag of the
\* tier is assigned, nothing else of the tier is touched
Configure(b) ==
    /\ enabled' = b
    /\ UNCHANGED <<processor, messages, turnList, summaries,
                   compression_queue, tasks, active_compressions, pending,
                   hydrating, requests, trimmed, chat>>
    /\ UNCHANGED <<ltm, classified>>

\* a finally clause that forgets the counter
ReleaseSlot_Leak(active) == active

\* the finally clause of _process_compression_task
ReleaseSlot(active) == IF active - 1 > 0 THEN active - 1 ELSE 0

\* _process_compression_task until it suspends or returns: the table is
\* read; no turn, or fewer than 6, and the task is over at once
ProcessCompressionTaskStart(id) ==
    /\ id \in 1..Len(tasks)
    /\ tasks[id].stage = "scheduled"
    /\ LET all_messages ==
               get_current_conversation_messages(
                   messages[tasks[id].conversation_id], db_limit)
       IN  IF Len(all_messages) < min_messages_to_compress
           THEN /\ tasks' = [tasks EXCEPT ![id].stage = "done"]
                /\ active_compressions' = ReleaseSlot(active_compressions)
           ELSE /\ tasks' = [tasks EXCEPT
                       ![id].stage = "compressing",
                       ![id].rows = Len(messages[tasks[id].conversation_id])]
                /\ UNCHANGED active_compressions
    /\ UNCHANGED <<enabled, processor, messages, turnList, summaries,
                   compression_queue, pending, hydrating, requests, trimmed,
                   chat>>
    /\ UNCHANGED <<ltm, classified>>

\* the rest of _incremental_compression and the finally clause
ProcessCompressionTaskFinish(id, llm, redis_ok) ==
    /\ id \in 1..Len(tasks)
    /\ tasks[id].stage = "compressing"
    /\ LET c == tasks[id].conversation_id
           all_messages ==
               get_current_conversation_messages(
                   SubSeq(messages[c], 1, tasks[id].rows), db_limit)
           new_summaries == NewSummaries(all_messages, llm)
       IN  /\ summaries' = IF redis_ok
                           THEN summaries \cup {<<c, l>> : l \in new_summaries}
                           ELSE summaries
           /\ turnList' = [turnList EXCEPT ![c] =
                  IF MessagesToSummarize(all_messages) = << >> THEN @
                  ELSE _cleanup_old_messages(@, LastN(all_messages,
                                                      max_keep_turns))]
           /\ tasks' = [tasks EXCEPT ![id].stage = "done",
                                     ![id].reply = llm,
                                     ![id].attempted = AttemptedFor(all_messages),
                                     ![id].calls =
                                         SummaryCalls(
                                             {l \in Layers : <<c, l>> \in summaries},
                                             all_messages, llm)]
    /\ active_compressions' = ReleaseSlot(active_compressions)
    /\ UNCHANGED <<enabled, processor, messages, compression_queue, pending,
                   hydrating, requests, trimmed, chat>>
    /\ UNCHANGED <<ltm, classified>>

(***************************************************************************)
(* The stream of one chat request.  Two handlers produce one:              *)
(* ChatService.process_stream_request (path "orchestrator", with the       *)
(* normal and the code intent) and the generator of the endpoint           *)
(* POST /v1/chat/stream (path "endpoint");                                 *)
(* ChatService.handle_code_execution is a third stream of events (path     *)
(* "code_execution").                                                      *)
(* chat.trace lists, in order, the phases the request entered ("context",  *)
(* "classify", "stream", "persist", "memory_update") and the events it     *)
(* handed to the client.                                                   *)
(***************************************************************************)
EventTypes ==
    {"content", "image", "message_created", "message_creation_error", "end",
     "error"}

IsEvent(x) == x \in EventTypes

Events(trace) == SelectSeq(trace, IsEvent)

\* the keyword parameters of AIService.generate_stream_response
GenerateStreamResponseParams ==
    {"user_message", "intent", "file_content", "web_content", "search_results",
     "user_identity", "contextual_prompt", "short_term_context"}

\* the keywords of the call in ChatService.generate_stream_response
NormalStreamKeywords ==
    {"user_message", "intent", "file_content", "web_content", "search_results",
     "full_context"}

\* the keywords of the call in the endpoint
EndpointStreamKeywords ==
    {"user_message", "intent", "file_content", "web_content", "search_results",
     "user_identity", "contextual_prompt", "short_term_context"}

\* the keywords of the code-generation call of _handle_code_intent
CodeCallKeywords ==
    {"user_message", "intent", "file_content", "web_content", "search_results",
     "full_context"}

\* the keywords of the second-phase stream call of _handle_code_intent
Phase2StreamKeywords == {"user_message", "intent", "full_context"}

\* AIService.generate_stream_response: a call with a keyword it does not
\* declare raises TypeError at the call; otherwise the whole reply is fetched
\* first and then cut into chunks, and any exception of the fetch becomes the
\* one chunk that starts with the word for error
ai_service_generate_stream_response(keywords, llm) ==
    IF ~(keywords \subseteq GenerateStreamResponseParams)
    THEN [raised |-> TRUE, chunks |-> << >>]
    ELSE [raised |-> FALSE,
          chunks |-> CASE llm = "text" -> << "text", "text" >>
                       [] llm = "empty" -> << >>
                       [] OTHER -> << "error_text" >>]

\* ChatService.generate_stream_response: the chunks of the AI service; an
\* exception becomes one chunk, the line data: {"type": "content", ...}
generate_stream_response(llm) ==
    LET r == ai_service_generate_stream_response(NormalStreamKeywords, llm)
    IN  IF r.raised
        THEN [chunks |-> << "failure_notice" >>, failed |-> TRUE]
        ELSE [chunks |-> r.chunks, failed |-> llm = "error"]

\* the except clause of a handler that lets the exception go
OnException_Reraise(trace) == [trace |-> trace, escaped |-> TRUE]

\* the except clause of a handler that swallows the exception
OnException_Silent(trace) == [trace |-> trace, escaped |-> FALSE]

\* the except clause of process_stream_request and of the endpoint: one
\* event of type error, and the generator returns
OnException(trace) == [trace |-> Append(trace, "error"), escaped |-> FALSE]

\* the event that reports every persistence as a success
message_created_data_AlwaysCreated(outcome) == "message_created"

\* the type of the dict create_messages_after_stream returns
message_created_data(outcome) ==
    IF outcome = "created" THEN "message_created" ELSE "message_creation_error"

\* the text of a chunk: three letters of the reply, the error chunk of the AI
\* service or the line built by ChatService.generate_stream_response
ChunkText(kind) ==
    CASE kind = "text" -> << Run("alpha", 3) >>
      [] kind = "error_text" ->
            << Run("cjk", 2), Run("digit", 1), Run("space", 1), Run("digit", 3) >>
      [] OTHER ->
            << Run("digit", 5), Run("space", 1), Run("digit", 8), Run("space", 1),
               Run("digit", 10), Run("space", 1), Run("digit", 10),
               Run("space", 1), Run("digit", 2), Run("space", 1),
               Run("cjk", 6), Run("digit", 1), Run("space", 1),
               Run("alpha", 9), Run("digit", 1), Run("alpha", 24),
               Run("digit", 2), Run("space", 1), Run("alpha", 3),
               Run("space", 1), Run("alpha", 2), Run("space", 1),
               Run("alpha", 10), Run("space", 1), Run("alpha", 7),
               Run("space", 1), Run("alpha", 8), Run("space", 1),
               Run("digit", 16) >>

RECURSIVE ReplyText(_)
\* full_response += chunk
ReplyText(chunks) ==
    IF chunks = << >> THEN EmptyText
    ELSE ChunkText(Head(chunks)) \o ReplyText(Tail(chunks))

\* the turn the request persists and hands to the memory tier
ChatTurn == Turn(TurnSmall.user_message, ReplyText(chat.reply))

ChatConversations == {"c1"}

\* the handler's except clause ran: the request is over
Failed(r, before_stream) ==
    [r EXCEPT !.phase = "finished",
              !.trace = OnException(r.trace).trace,
              !.escaped = OnException(r.trace).escaped,
              !.pre_error = before_stream]

\* a handler that classifies the intent before it reads the context
BeginRequest_ClassifyFirst(path, c, parse) ==
    /\ chat.phase \in {"idle", "finished"}
    /\ requests' = requests + 1
    /\ chat' = IF parse = "raised"
               THEN Failed([NoChat EXCEPT !.path = path, !.conv = c], TRUE)
               ELSE [NoChat EXCEPT !.path = path, !.conv = c,
                                   !.phase = "classify",
                                   !.trace = << "classify" >>]
    /\ UNCHANGED <<enabled, processor, messages, turnList, summaries,
                   compression_queue, tasks, active_compressions, pending,
                   hydrating, trimmed>>
    /\ UNCHANGED <<ltm, classified>>

\* process_stream_request, or the generator of the endpoint, up to its first
\* suspension: the request is parsed and its attachments are read
BeginRequest(path, c, parse) ==
    /\ chat.phase \in {"idle", "finished"}
    /\ requests' = requests + 1
    /\ chat' = IF parse = "raised"
               THEN Failed([NoChat EXCEPT !.path = path, !.conv = c], TRUE)
               ELSE [NoChat EXCEPT !.path = path, !.conv = c,
                                   !.phase = "context",
                                   !.trace = << "context" >>]
    /\ UNCHANGED <<enabled, processor, messages, turnList, summaries,
                   compression_queue, tasks, active_compressions, pending,
                   hydrating, trimmed>>
    /\ UNCHANGED <<ltm, classified>>

\* extract_user_context has returned; an exception in it is swallowed and
\* the context is empty.  The orchestrator's context read goes through
\* get_recent_context, which writes the list back when it found it empty.
ExtractUserContextDone(outcome, llm, redis_ok) ==
    /\ chat.phase = "context"
    /\ chat' = [chat EXCEPT !.phase = "classify",
                            !.trace = Append(@, "classify")]
    /\ IF /\ chat.path = "orchestrator" /\ outcome = "ok" /\ enabled
          /\ turnList[chat.conv] = << >>
       THEN /\ turnList' = [turnList EXCEPT ![chat.conv] =
                               HydratedList(chat.conv, llm, redis_ok)]
            /\ trimmed' =
                 IF /\ HydratedList(chat.conv, llm, redis_ok) # << >>
                    /\ Len(get_current_conversation_messages(
                              messages[chat.conv], context_limit))
                          > max_stored_turns
                 THEN trimmed \cup {chat.conv} ELSE trimmed
       ELSE UNCHANGED <<turnList, trimmed>>
    /\ UNCHANGED <<enabled, processor, messages, summaries, compression_queue,
                   tasks, active_compressions, pending, hydrating, requests>>
    /\ UNCHANGED <<ltm, classified>>

\* the intent is known and its parameters are prepared (an exception here
\* reaches the handler's except clause); the code intent starts with the
\* notice that the request is being processed
ProcessIntentDone(intent, prepare) ==
    /\ chat.phase = "classify"
    /\ chat.path = "endpoint" => intent = "normal"
    /\ chat' = CASE prepare = "raised" -> Failed(chat, TRUE)
                 [] prepare # "raised" /\ intent = "code" ->
                       [chat EXCEPT !.intent = "code", !.phase = "codegen",
                                    !.trace = Append(@, "content")]
                 [] OTHER ->
                       [chat EXCEPT !.intent = "normal", !.phase = "stream",
                                    !.trace = Append(@, "stream")]
    /\ UNCHANGED <<enabled, processor, messages, turnList, summaries,
                   compression_queue, tasks, active_compressions, pending,
                   hydrating, requests, trimmed>>
    /\ UNCHANGED <<ltm, classified>>

\* the reply stream is asked for: _handle_normal_intent through
\* ChatService.generate_stream_response, the endpoint from the AI service
StreamStart(llm) ==
    /\ chat.phase = "stream"
    /\ LET ai == ai_service_generate_stream_response(EndpointStreamKeywords, llm)
           r == IF chat.path = "endpoint"
                THEN [chunks |-> ai.chunks, failed |-> llm = "error"]
                ELSE generate_stream_response(llm)
       IN  chat' = IF chat.path = "endpoint" /\ ai.raised
                   THEN Failed([chat EXCEPT !.stream_error = TRUE], FALSE)
                   ELSE [chat EXCEPT !.phase = "streaming",
                                     !.chunks = r.chunks,
                                     !.stream_error = r.failed]
    /\ UNCHANGED <<enabled, processor, messages, turnList, summaries,
                   compression_queue, tasks, active_compressions, pending,
                   hydrating, requests, trimmed>>
    /\ UNCHANGED <<ltm, classified>>

\* one chunk is wrapped into a content event and handed to the client
StreamChunk ==
    /\ chat.phase = "streaming"
    /\ chat.chunks # << >>
    /\ chat' = [chat EXCEPT !.chunks = Tail(@),
                            !.reply = Append(@, Head(chat.chunks)),
                            !.trace = Append(@, "content")]
    /\ UNCHANGED <<enabled, processor, messages, turnList, summaries,
                   compression_queue, tasks, active_compressions, pending,
                   hydrating, requests, trimmed>>
    /\ UNCHANGED <<ltm, classified>>

\* _finalize_stream_response up to its first yield: the rows are inserted
\* and message_created, or message_creation_error, is handed to the client
CreateMessagesAfterStream(outcome) ==
    /\ chat.path = "orchestrator"
    /\ chat.phase = "streaming"
    /\ chat.chunks = << >>
    /\ messages' = [messages EXCEPT ![chat.conv] =
                        create_messages_after_stream(@, ChatTurn, outcome)]
    /\ chat' = [chat EXCEPT !.phase = "created", !.persisted = outcome,
                            !.trace = @ \o << "persist",
                                              message_created_data(outcome) >>]
    /\ UNCHANGED <<enabled, processor, turnList, summaries, compression_queue,
                   tasks, active_compressions, pending, hydrating, requests,
                   trimmed>>
    /\ UNCHANGED <<ltm, classified>>

\* the end event is handed to the client: by _finalize_stream_response after
\* message_created, with the memory update still to come, by the endpoint
\* after its memory update
EmitEnd ==
    /\ \/ /\ chat.path = "orchestrator" /\ chat.phase = "created"
          /\ chat' = [chat EXCEPT !.phase = "ended",
                                  !.trace = Append(@, "end")]
          /\ pending' = pending (+) SetToBag({<<chat.conv, ChatTurn>>})
       \/ /\ chat.path = "endpoint" /\ chat.phase = "saved"
          /\ chat' = [chat EXCEPT !.phase = "finished",
                                  !.trace = Append(@, "end")]
          /\ UNCHANGED pending
    /\ UNCHANGED <<enabled, processor, messages, turnList, summaries,
                   compression_queue, tasks, active_compressions, hydrating,
                   requests, trimmed>>
    /\ UNCHANGED <<ltm, classified>>

\* _finalize_stream_response after the client took the end event:
\* save_conversation_to_memory, whose exceptions are swallowed
SaveConversationToMemory(redis_ok) ==
    /\ chat.path = "orchestrator"
    /\ chat.phase = "ended"
    /\ smart_store_conversation(chat.conv, ChatTurn, redis_ok)
    /\ chat' = [chat EXCEPT !.phase = "finished",
                            !.trace = Append(@, "memory_update")]
    /\ UNCHANGED <<ltm, classified>>

\* the endpoint after the last chunk: simple_chat_service's
\* save_conversation_to_memory (a store of its own), then the end event
EndpointSaveConversationToMemory ==
    /\ chat.path = "endpoint"
    /\ chat.phase = "streaming"
    /\ chat.chunks = << >>
    /\ chat' = [chat EXCEPT !.phase = "saved",
                            !.trace = Append(@, "memory_update")]
    /\ UNCHANGED <<enabled, processor, messages, turnList, summaries,
                   compression_queue, tasks, active_compressions, pending,
                   hydrating, requests, trimmed>>
    /\ UNCHANGED <<ltm, classified>>

\* _handle_code_intent after its notice: the code is asked for, extracted
\* and run, and the second-phase stream is asked for.  A reply without code
\* and a failed run each end the stream with one content event; an
\* exception goes to the except clause of process_stream_request.
HandleCodeIntent(llm, extracted, exec) ==
    /\ chat.phase = "codegen"
    /\ LET gen == generate_response(CodeCallKeywords, llm)
           st == ai_service_generate_stream_response(Phase2StreamKeywords, llm)
       IN  chat' =
             IF gen = "error" THEN Failed(chat, TRUE)
             ELSE IF gen = "empty" \/ ~extracted
             THEN [chat EXCEPT !.phase = "finished",
                               !.trace = Append(@, "content")]
             ELSE IF exec = "failed"
             THEN [chat EXCEPT !.phase = "finished", !.sandbox = "failed",
                               !.trace = Append(@, "content")]
             ELSE IF st.raised
             THEN Failed([chat EXCEPT !.sandbox = "ok",
                                      !.stream_error = TRUE,
                                      !.trace = Append(@, "stream")], FALSE)
             ELSE [chat EXCEPT !.phase = "streaming", !.sandbox = "ok",
                               !.chunks = st.chunks,
                               !.stream_error = (llm = "error"),
                               !.trace = Append(@, "stream")]
    /\ UNCHANGED <<enabled, processor, messages, turnList, summaries,
                   compression_queue, tasks, active_compressions, pending,
                   hydrating, requests, trimmed>>
    /\ UNCHANGED <<ltm, classified>>

\* ChatService.handle_code_execution: a notice, the lines of the code, then
\* the run: no code found and the stream is over; a run that worked gives a
\* content event and an image, one that failed a content event
HandleCodeExecution(c, extracted, exec) ==
    /\ chat.phase \in {"idle", "finished"}
    /\ requests' = requests + 1
    /\ chat' = [NoChat EXCEPT
           !.path = "code_execution", !.intent = "code", !.conv = c,
           !.phase = "finished",
           !.sandbox = IF extracted THEN exec ELSE "none",
           !.trace = << "content", "content" >>
                     \o (IF ~extracted THEN << >>
                         ELSE IF exec = "ok" THEN << "content", "image" >>
                         ELSE << "content" >>)]
    /\ UNCHANGED <<enabled, processor, messages, turnList, summaries,
                   compression_queue, tasks, active_compressions, pending,
                   hydrating, trimmed>>
    /\ UNCHANGED <<ltm, classified>>

(***************************************************************************)
(* The facade of the memory tiers, UnifiedMemoryManager.                   *)
(***************************************************************************)
\* each user talks in a conversation of their own
ConversationOf(u) == IF u = "u1" THEN "c1" ELSE "c2"

\* the texts of a turn as the short-term tier stores them
ShortTermTurn(t) ==
    Turn(<< Run("cjk", 5) >>, << Run("cjk", t.length - 5) >>)

\* 我叫张三, with a short reply: 0.17 without the bonus of the working hours
TurnName ==
    MemoryTurn("my_name_is_zhangsan", "short", 10, "normal", 0, 0, 0, FALSE,
               TRUE, TRUE, "name", ExName)

\* 我叫张三, with a long reply full of keywords: 0.6
TurnNameLong ==
    MemoryTurn("my_name_is_zhangsan", "long", 1100, "normal", 5, 5, 0, TRUE,
               TRUE, TRUE, "name", ExName)

\* 我住在北京, with a short reply: 0.22 without the bonus of the working hours
TurnHome ==
    MemoryTurn("i_live_in_beijing", "short", 10, "normal", 0, 0, 1, FALSE,
               TRUE, TRUE, "home", ExHome)

MemoryTurns == {TurnName, TurnNameLong}

IdentityTurns == {TurnName, TurnHome, TurnNameLong}

Query(text, topic) == [text |-> text, topic |-> topic]

Queries == {Query("who_am_i", "name"), Query("recommend_drink", "coffee")}

\* UnifiedMemoryManager.process_conversation: _process_short_term and
\* _process_long_term under gather(return_exceptions=True).  The long-term
\* side is process_conversation_for_storage: score, and from the threshold
\* on extract the profile and store the point.
ProcessConversation(u, t, work_hours, redis_ok, embed, qdrant_ok, llm) ==
    LET importance == calculate_conversation_importance(t, work_hours)
        should_store == importance >= min_importance_score
        memory_id == _store_semantic_memory(embed, qdrant_ok)
    IN  /\ requests' = requests + 1
        /\ SmartStoreEffect(ConversationOf(u), ShortTermTurn(t), redis_ok)
        /\ ltm' = [ltm EXCEPT
              !.profile[u] = IF should_store
                             THEN extract_user_preferences(@, t, llm) ELSE @,
              !.vectors = IF should_store /\ memory_id # ""
                          THEN @ \cup {Point(u, t, importance)} ELSE @,
              !.said[u] = Append(@, t.message),
              !.last = [NoCall EXCEPT
                  !.op = "process", !.user = u, !.text = t.message,
                  !.importance = importance,
                  !.short_failed = ~redis_ok,
                  !.long_failed = should_store /\ memory_id = "",
                  !.embed = embed,
                  !.stored = should_store,
                  !.memory_id = IF should_store THEN memory_id ELSE "",
                  !.returned = TRUE]]
        /\ UNCHANGED <<enabled, messages, summaries, active_compressions,
                       pending, hydrating, chat, classified>>

\* UnifiedMemoryManager.get_conversation_context: get_recent_context,
\* search_relevant_memories and get_user_profile under
\* gather(return_exceptions=True), then _build_full_context.  A tier that
\* fails catches its exception and returns its empty value.
GetConversationContext(u, q, short, embed, qdrant_ok, profile_read, llm) ==
    LET c == ConversationOf(u)
        recent == get_current_conversation_messages(messages[c], context_limit)
        found == IF embed = "empty" THEN {}
                 ELSE search_semantic_memory(ltm.vectors, q.topic, u,
                                             qdrant_ok)
        hydrated == HydratedList(c, llm, TRUE)
        read_ok == short = "ok" /\ enabled
        long_failed == \/ embed = "empty"
                       \/ ~qdrant_ok
                       \/ "search_by_intent" \notin SemanticSearchMethods
        r == get_conversation_context(
                 ~read_ok, long_failed, profile_read = "failed",
                 IF turnList[c] # << >>
                 THEN _format_conversations(
                          get_recent_conversations(turnList[c], context_limit))
                 ELSE [i \in 1..Len(recent) |->
                          Entry(recent[i].user_message, recent[i].ai_response)],
                 search_relevant_memories(ltm.vectors, q.topic, u,
                                          context_limit, embed, qdrant_ok),
                 ltm.profile[u])
    IN  /\ IF read_ok /\ turnList[c] = << >>
           THEN /\ turnList' = [turnList EXCEPT ![c] = hydrated]
                /\ trimmed' = IF hydrated # << >>
                                 /\ Len(recent) > max_stored_turns
                              THEN trimmed \cup {c} ELSE trimmed
           ELSE UNCHANGED <<turnList, trimmed>>
        /\ ltm' = [ltm EXCEPT !.last = [NoCall EXCEPT
              !.op = "context", !.user = u, !.text = q.text,
              !.short_failed = ~read_ok,
              !.source = IF ~read_ok THEN "none"
                         ELSE IF turnList[c] # << >> THEN "redis"
                         ELSE "database",
              !.long_failed = long_failed,
              !.profile_failed = (profile_read = "failed"),
              !.embed = embed,
              !.found = found,
              !.memories = r.memories,
              !.long_block = _format_long_term_memories(r.memories),
              !.short_block = r.short_block,
              !.profile_block = r.profile_block,
              !.returned = r.returned]]
        /\ UNCHANGED <<enabled, processor, messages, summaries,
                       compression_queue, tasks, active_compressions, pending,
                       hydrating, requests, chat, classified>>

\* one call of LLMBasedIntentService.process_intent; the record keeps what
\* the call consulted
ProcessIntent(attachments, has_url, attempts, reply, search_ok) ==
    LET r == process_intent(attachments, has_url, attempts, reply, search_ok)
        by_url == attachments = "none" /\ has_url
        by_llm == attachments = "none" /\ ~has_url
    IN  /\ classified' =
              [input |-> IF attachments # "none" THEN attachments
                         ELSE IF has_url THEN "url_in_message" ELSE "plain",
               attempts |-> IF by_url THEN attempts ELSE << >>,
               reply |-> IF by_llm THEN reply ELSE "none",
               search_ok |-> IF by_llm /\ analyze_with_llm(reply) = "search"
                             THEN search_ok ELSE TRUE,
               intent |-> r.intent, content |-> r.content,
               searched |-> r.searched, returned |-> r.returned]
        /\ UNCHANGED <<enabled, processor, messages, turnList, summaries,
                       compression_queue, tasks, active_compressions, pending,
                       hydrating, requests, trimmed, chat, ltm>>

(***************************************************************************)
(* ProfileService._update_user_profile, in two steps: the document is read *)
(* (GET), merged and written back (SETEX).  Redis serves every process of  *)
(* the server, and nothing locks the document between the two commands.    *)
(***************************************************************************)
\* a SETEX that never reaches Redis
set_user_profile_Dropped(profiles, user, profile_data) == profiles

\* redis_manager.set_user_profile: the whole document is replaced
set_user_profile(profiles, user, profile_data) ==
    [profiles EXCEPT ![user] = profile_data]

UpdateUserProfileRead(k, u, new_data) ==
    /\ ltm.updates[k].stage = "idle"
    /\ ltm' = [ltm EXCEPT !.updates[k] =
                  [stage |-> "read", user |-> u, data |-> new_data,
                   existing |-> ltm.profile[u], before |-> ltm.profile[u]]]
    /\ UNCHANGED <<enabled, processor, messages, turnList, summaries,
                   compression_queue, tasks, active_compressions, pending,
                   hydrating, requests, trimmed, chat, classified>>

UpdateUserProfileWrite(k) ==
    /\ ltm.updates[k].stage = "read"
    /\ LET call == ltm.updates[k]
       IN  ltm' = [ltm EXCEPT
               !.profile = set_user_profile(@, call.user,
                               MergeProfile(call.existing, call.data)),
               !.updates[k].stage = "written",
               !.updates[k].before = ltm.profile[call.user]]
    /\ UNCHANGED <<enabled, processor, messages, turnList, summaries,
                   compression_queue, tasks, active_compressions, pending,
                   hydrating, requests, trimmed, chat, classified>>

(***************************************************************************)
(* Spec: the queue and its worker under requests of two kinds, with Redis  *)
(* and the relational store answering every call.                          *)
(***************************************************************************)
Next ==
    \/ \E in \in QueueInputs :
            /\ requests < MaxRequests
            /\ FinalizeStreamResponse(in[1], in[2], "created")
    \/ \E in \in QueueInputs : SmartStoreConversation(in[1], in[2], TRUE)
    \/ \E c \in Conversations : GetRecentContextBegin(c)
    \/ \E c \in Conversations, llm \in LLMOutcomes :
            GetRecentContextHydrate(c, llm, TRUE)
    \/ ProcessorDequeue
    \/ \E id \in 1..MaxRequests : ProcessCompressionTaskStart(id)
    \/ \E id \in 1..MaxRequests, llm \in LLMOutcomes :
            ProcessCompressionTaskFinish(id, llm, TRUE)

Spec == Init /\ [][Next]_vars

(***************************************************************************)
(* SpecStore: fewer requests, of every kind, and each call to Redis or to  *)
(* the relational store may fail.                                          *)
(***************************************************************************)
NextStore ==
    \/ \E in \in StoreInputs, o \in PersistOutcomes :
            /\ requests < MaxStoreRequests
            /\ FinalizeStreamResponse(in[1], in[2], o)
    \/ \E in \in StoreInputs, ok \in BOOLEAN :
            SmartStoreConversation(in[1], in[2], ok)
    \/ \E c \in Conversations : GetRecentContextBegin(c)
    \/ \E c \in Conversations, llm \in LLMOutcomes, ok \in BOOLEAN :
            GetRecentContextHydrate(c, llm, ok)
    \/ ProcessorDequeue
    \/ \E id \in 1..MaxStoreRequests : ProcessCompressionTaskStart(id)
    \/ \E id \in 1..MaxStoreRequests, llm \in LLMOutcomes, ok \in BOOLEAN :
            ProcessCompressionTaskFinish(id, llm, ok)

SpecStore == Init /\ [][NextStore]_vars

(***************************************************************************)
(* SpecCompress: a conversation of 9, 10, 12 or 17 long turns, more than   *)
(* max_tokens from 10 turns on, receives short turns; the worker runs the  *)
(* tasks they ask for.  Redis and the relational store answer every call.  *)
(***************************************************************************)
\* a long turn: 300 tokens
TurnHeavy == Turn(<< Run("cjk", 200) >>, << Run("alpha", 2), Run("digit", 1) >>)

SeedCounts == {9, 10, 12, 17}

HeavyRows(n) ==
    [i \in 1..(2 * n) |->
        IF i % 2 = 1 THEN Row("user", TurnHeavy.user_message)
        ELSE Row("assistant", TurnHeavy.ai_response)]

HeavyList(n) ==
    [i \in 1..n |-> Entry(TurnHeavy.user_message, TurnHeavy.ai_response)]

CompressInputs == {<<"c1", TurnSmall>>}

InitCompress ==
    /\ enabled = TRUE
    /\ processor = "not_started"
    /\ \E n \in SeedCounts :
          /\ messages = [c \in Conversations |->
                            IF c = "c1" THEN HeavyRows(n) ELSE << >>]
          /\ turnList = [c \in Conversations |->
                            IF c = "c1" THEN HeavyList(Min(n, max_stored_turns))
                            ELSE << >>]
    /\ summaries = {}
    /\ compression_queue = << >>
    /\ tasks = << >>
    /\ active_compressions = 0
    /\ pending = EmptyBag
    /\ hydrating = {}
    /\ requests = 0
    /\ trimmed = {}
    /\ chat = NoChat
    /\ ltm = NoMemory
    /\ classified = NoIntent

NextCompress ==
    \/ \E in \in CompressInputs :
            /\ requests < MaxCompressRequests
            /\ FinalizeStreamResponse(in[1], in[2], "created")
    \/ \E in \in CompressInputs : SmartStoreConversation(in[1], in[2], TRUE)
    \/ ProcessorDequeue
    \/ \E id \in 1..MaxCompressRequests : ProcessCompressionTaskStart(id)
    \/ \E id \in 1..MaxCompressRequests, llm \in LLMOutcomes :
            ProcessCompressionTaskFinish(id, llm, TRUE)

SpecCompress == InitCompress /\ [][NextCompress]_vars

(***************************************************************************)
(* SpecChat: chat requests served one after the other by the orchestrator, *)
(* by the endpoint and by handle_code_execution, each collaborator         *)
(* answering or failing.                                                   *)
(***************************************************************************)
NextChat ==
    \/ \E path \in {"orchestrator", "endpoint"}, c \in ChatConversations,
          parse \in {"ok", "raised"} :
            /\ requests < MaxChatRequests
            /\ BeginRequest(path, c, parse)
    \/ \E c \in ChatConversations, extracted \in BOOLEAN,
          exec \in {"ok", "failed"} :
            /\ requests < MaxChatRequests
            /\ HandleCodeExecution(c, extracted, exec)
    \/ \E outcome \in {"ok", "failed"}, llm \in LLMOutcomes, ok \in BOOLEAN :
            ExtractUserContextDone(outcome, llm, ok)
    \/ \E intent \in {"normal", "code"}, prepare \in {"ok", "raised"} :
            ProcessIntentDone(intent, prepare)
    \/ \E llm \in LLMOutcomes : StreamStart(llm)
    \/ StreamChunk
    \/ \E o \in PersistOutcomes : CreateMessagesAfterStream(o)
    \/ EmitEnd
    \/ \E ok \in BOOLEAN : SaveConversationToMemory(ok)
    \/ EndpointSaveConversationToMemory
    \/ \E llm \in LLMOutcomes, extracted \in BOOLEAN, exec \in {"ok", "failed"} :
            HandleCodeIntent(llm, extracted, exec)

SpecChat == Init /\ [][NextChat]_vars

(***************************************************************************)
(* SpecMemory: calls of the facade for two users, each collaborator        *)
(* (Redis, the embedding service, the vector store, the LLM) answering or  *)
(* failing.  The tables of the two conversations are empty.                *)
(***************************************************************************)
InitMemory ==
    /\ enabled = TRUE
    /\ processor = "not_started"
    /\ messages = [c \in Conversations |-> << >>]
    /\ turnList = [c \in Conversations |-> << >>]
    /\ summaries = {}
    /\ compression_queue = << >>
    /\ tasks = << >>
    /\ active_compressions = 0
    /\ pending = EmptyBag
    /\ hydrating = {}
    /\ requests = 0
    /\ trimmed = {}
    /\ chat = NoChat
    /\ ltm = NoMemory
    /\ classified = NoIntent

NextMemory ==
    \/ \E u \in Users, t \in MemoryTurns, work_hours \in BOOLEAN,
          redis_ok \in BOOLEAN, embed \in EmbedOutcomes,
          qdrant_ok \in BOOLEAN :
            /\ requests < MaxMemoryCalls
            /\ ProcessConversation(u, t, work_hours, redis_ok, embed,
                                   qdrant_ok, "text")
    \/ \E u \in Users, q \in Queries, short \in {"ok", "failed"},
          embed \in EmbedOutcomes, qdrant_ok \in BOOLEAN,
          profile_read \in {"ok", "failed"} :
            GetConversationContext(u, q, short, embed, qdrant_ok,
                                   profile_read, "text")

SpecMemory == InitMemory /\ [][NextMemory]_vars

(***************************************************************************)
(* SpecIdentity: one user tells their name and where they live, in turns   *)
(* that are short or long, at any hour, the LLM answering or failing.      *)
(***************************************************************************)
NextIdentity ==
    \E t \in IdentityTurns, work_hours \in BOOLEAN, redis_ok \in BOOLEAN,
       llm \in LLMOutcomes :
        /\ requests < MaxIdentityCalls
        /\ ProcessConversation("u1", t, work_hours, redis_ok, "vector", TRUE,
                               llm)

SpecIdentity == InitMemory /\ [][NextIdentity]_vars

(***************************************************************************)
(* SpecIntent: calls of process_intent with and without attachments, with  *)
(* and without a URL in the message, every attempt to fetch the page, the  *)
(* LLM and the web search ending in each of their ways.                    *)
(***************************************************************************)
NextIntent ==
    \/ \E attachments \in {"url", "file", "both"}, has_url \in BOOLEAN :
            ProcessIntent(attachments, has_url,
                          [i \in 1..max_retries |-> "page"], "text_plain",
                          TRUE)
    \/ \E attempts \in [1..max_retries -> FetchOutcomes] :
            ProcessIntent("none", TRUE, attempts, "text_plain", TRUE)
    \/ \E reply \in IntentReplies, search_ok \in BOOLEAN :
            ProcessIntent("none", FALSE, [i \in 1..max_retries |-> "page"],
                          reply, search_ok)

SpecIntent == InitMemory /\ [][NextIntent]_vars

(***************************************************************************)
(* SpecProfile: two calls of _update_user_profile, for the same user or    *)
(* for two, on a profile that is empty or already holds something.         *)
(***************************************************************************)
ProfileSeed ==
    [identity |-> [NoIdentity EXCEPT !.name = "wangwu"],
     preferences |-> << "coffee" >>, interests |-> << >>]

InitProfile ==
    /\ enabled = TRUE
    /\ processor = "not_started"
    /\ messages = [c \in Conversations |-> << >>]
    /\ turnList = [c \in Conversations |-> << >>]
    /\ summaries = {}
    /\ compression_queue = << >>
    /\ tasks = << >>
    /\ active_compressions = 0
    /\ pending = EmptyBag
    /\ hydrating = {}
    /\ requests = 0
    /\ trimmed = {}
    /\ chat = NoChat
    /\ \E p \in {EmptyProfile, ProfileSeed} :
          ltm = [NoMemory EXCEPT !.profile["u1"] = p]
    /\ classified = NoIntent

NextProfile ==
    \/ \E k \in UpdateSlots, u \in Users, new_data \in Extractions :
            UpdateUserProfileRead(k, u, new_data)
    \/ \E k \in UpdateSlots : UpdateUserProfileWrite(k)

SpecProfile == InitProfile /\ [][NextProfile]_vars

(***************************************************************************)
(* The memory tiers behind the facade.                                     *)
(***************************************************************************)
\* what get_recent_context gives of the conversation of a user
RecentOf(u) ==
    _format_conversations(
        get_recent_conversations(turnList[ConversationOf(u)], context_limit))

\* C22: a tier that fails neither fails the call of the facade nor the other
\* tiers: the call returns; a context call gives the recent turns whenever
\* the short-term read works and the profile whenever its read works,
\* whatever the other reads did; a process call registers the turn whenever
\* Redis works and writes the point whenever the vector store takes it,
\* whatever the other tier did.
TierFailureIsolated ==
    LET l == ltm.last
    IN  /\ l.op # "none" => l.returned
        /\ l.op = "context" =>
              /\ ~l.short_failed => l.short_block = RecentOf(l.user)
              /\ ~l.profile_failed => l.profile_block = ltm.profile[l.user]
        /\ l.op = "process" =>
              /\ ~l.short_failed => turnList[ConversationOf(l.user)] # << >>
              /\ l.stored /\ l.memory_id # "" =>
                    \E p \in ltm.vectors :
                        /\ p.user_id = l.user
                        /\ p.importance_score = l.importance

\* a context call whose long-term search failed and that gives the recent
\* turns all the same
TierFailureIsolatedWitness ==
    /\ ltm.last.op = "context"
    /\ ltm.last.long_failed
    /\ ~ltm.last.short_failed
    /\ ltm.last.short_block # << >>
    /\ ltm.last.returned

\* a process call whose short-term write failed and whose point is stored
ShortFailedLongStored ==
    /\ ltm.last.op = "process"
    /\ ltm.last.short_failed
    /\ ltm.last.memory_id # ""
    /\ ltm.vectors # {}

\* C23: a long-term search on behalf of a user never returns an entry of
\* another user: neither what the vector store hands to the ranking nor what
\* search_relevant_memories returns.
SearchStaysWithUser ==
    ltm.last.op = "context" =>
        \A p \in ltm.last.found \cup ltm.last.memories :
            p.user_id = ltm.last.user

\* a search that found the asking user's memory while the collection holds
\* a memory of the other user on the same subject
SearchStaysWithUserWitness ==
    /\ ltm.last.op = "context"
    /\ ltm.last.found # {}
    /\ \E p \in ltm.last.found, q \in ltm.vectors :
          /\ q.user_id # ltm.last.user
          /\ q.topic = p.topic

\* C24: once a turn that reaches the importance threshold is stored, a later
\* query of the same user that matches it makes the long-term block of the
\* context contain that memory, as a line prefixed with its importance.
StoredMemoryRecalled ==
    ltm.last.op = "context" /\ ltm.last.found # {} =>
        \E p \in ltm.last.found :
            [prefix |-> p.importance_score, content |-> p.content]
                \in ltm.last.long_block

\* C25: when the embedding service returns an empty vector, the storage of
\* a turn reports stored = false and writes nothing to the vector store.
EmptyEmbeddingNotStoredStep ==
    (/\ requests' = requests + 1
     /\ ltm'.last.op = "process"
     /\ ltm'.last.embed = "empty")
        => /\ ~ltm'.last.stored
           /\ ltm'.vectors = ltm.vectors

EmptyEmbeddingNotStored == [][EmptyEmbeddingNotStoredStep]_vars

\* the calls of _update_user_profile for user u that have written
WrittenFor(u) ==
    {k \in UpdateSlots :
        ltm.updates[k].user = u /\ ltm.updates[k].stage = "written"}

\* what call k wrote
ResultOf(k) == MergeProfile(ltm.updates[k].existing, ltm.updates[k].data)

\* C26: two concurrent profile updates of a user lose at most one merge: once
\* both have written, the stored profile is the complete result of one of
\* them, applied to the profile as it was before both or as the other left
\* it.
LoseAtMostOneMerge ==
    \A u \in Users :
        WrittenFor(u) = UpdateSlots =>
            \E k \in UpdateSlots : \E j \in UpdateSlots \ {k} :
                /\ ltm.profile[u] = ResultOf(k)
                /\ ltm.updates[k].existing
                      \in {ltm.updates[j].existing, ResultOf(j)}

\* both calls read the same profile, then both wrote: the merge of the
\* first writer is lost
LoseAtMostOneMergeWitness ==
    \E u \in Users :
        /\ WrittenFor(u) = UpdateSlots
        /\ \E k \in UpdateSlots : \E j \in UpdateSlots \ {k} :
              /\ ltm.updates[k].existing = ltm.updates[j].existing
              /\ ltm.updates[k].before = ResultOf(j)
              /\ ResultOf(j) # ltm.updates[j].existing
              /\ ltm.profile[u] = ResultOf(k)
              /\ ltm.profile[u] # MergeProfile(ResultOf(j), ltm.updates[k].data)

\* C27: applying the same extraction twice leaves the profile as applying
\* it once: identity, preferences and interests are not changed by the
\* second merge.
MergeTwiceIsMergeOnce ==
    \A k \in UpdateSlots : \A j \in UpdateSlots \ {k} :
        (/\ ltm.updates[j].stage = "written"
         /\ ltm.updates[k].stage = "written"
         /\ ltm.updates[k].user = ltm.updates[j].user
         /\ ltm.updates[k].data = ltm.updates[j].data
         /\ ltm.updates[k].existing = ResultOf(j))
            => ltm.profile[ltm.updates[k].user] = ResultOf(j)

\* an extraction with preferences and interests, one of them twice in its
\* own list, applied once and then once more to what the first call wrote
MergeTwiceIsMergeOnceWitness ==
    \E k \in UpdateSlots : \E j \in UpdateSlots \ {k} :
        /\ ltm.updates[j].stage = "written"
        /\ ltm.updates[k].stage = "written"
        /\ ltm.updates[k].user = ltm.updates[j].user
        /\ ltm.updates[j].data = ExCoffee
        /\ ltm.updates[k].data = ExCoffee
        /\ ltm.updates[j].existing = EmptyProfile
        /\ ltm.updates[k].existing = ResultOf(j)
        /\ ltm.updates[k].before = ResultOf(j)
        /\ ltm.profile[ltm.updates[k].user].preferences
              = << "coffee", "no_sweets" >>

\* the memory update has processed message first and, later, message then
ProcessedInOrder(u, first, then) ==
    \E i, j \in 1..Len(ltm.said[u]) :
        /\ i < j
        /\ ltm.said[u][i] = first
        /\ ltm.said[u][j] = then

\* C28: after the memory update has processed 我叫张三 and then 我住在北京 of
\* one user, the profile has identity.name = 张三 and identity.location =
\* 北京.
NameAndHomeCaptured ==
    \A u \in Users :
        ProcessedInOrder(u, TurnName.message, TurnHome.message) =>
            /\ ltm.profile[u].identity.name = TurnName.says.identity.name
            /\ ltm.profile[u].identity.location
                  = TurnHome.says.identity.location

(***************************************************************************)
(* Intent classification.                                                  *)
(***************************************************************************)
\* the last attempt to fetch the page of the last call, "none" without one
FetchEnded ==
    IF classified.attempts = << >>
          \/ \E i \in 1..Len(classified.attempts) :
                 classified.attempts[i] = "page"
    THEN "none"
    ELSE classified.attempts[Len(classified.attempts)]

\* C29: when the fetch of the URL in the message fails on the anti-crawler
\* check, the classification is web and its content starts with 错误：.
AntiScrapeGivesWebError ==
    FetchEnded = "anti_crawler" =>
        /\ classified.intent = "web"
        /\ classified.content # << >>
        /\ Head(classified.content) = "error_colon"

\* the anti-crawler check fired on the last attempt after two attempts that
\* failed otherwise
AntiScrapeGivesWebErrorWitness ==
    /\ classified.input = "url_in_message"
    /\ classified.attempts = <<"timeout", "http_status", "anti_crawler">>
    /\ classified.intent = "web"
    /\ Contains(classified.content, "anti_crawler")

\* C30: a failure inside the classification never fails the request: when
\* the fetch of the page fails otherwise than on the anti-crawler check,
\* when the LLM call of the arbitration fails and when the web search fails,
\* process_intent returns and the intent is normal.
ClassificationFallsBackToNormal ==
    /\ classified.input # "none" => classified.returned
    /\ FetchEnded \in {"timeout", "http_status", "other"} =>
          classified.intent = "normal"
    /\ classified.reply = "raised" => classified.intent = "normal"
    /\ ~classified.search_ok => classified.intent = "normal"

\* the LLM chose search and the search failed
ClassificationFallsBackToNormalWitness ==
    /\ classified.input = "plain"
    /\ classified.reply = "json_search"
    /\ ~classified.search_ok
    /\ ~classified.searched
    /\ classified.intent = "normal"
    /\ classified.returned

(***************************************************************************)
(* SpecTokens: one conversation receives turns whose texts begin and end   *)
(* with letters, digits, ideographs or nothing; each turn is persisted and *)
(* then stored by the memory update, which estimates the tokens of the     *)
(* conversation.                                                           *)
(***************************************************************************)
\* "hi" / "ok", "1" / "", two ideographs / "ok", "2 more" / "yes"
TokenTurns ==
    {Turn(<< Run("alpha", 2) >>, << Run("alpha", 2) >>),
     Turn(<< Run("digit", 1) >>, EmptyText),
     Turn(<< Run("cjk", 2) >>, << Run("alpha", 2) >>),
     Turn(<< Run("digit", 1), Run("space", 1), Run("alpha", 4) >>,
          << Run("alpha", 3) >>)}

NextTokens ==
    \/ \E t \in TokenTurns :
            /\ requests < MaxTokenTurns
            /\ FinalizeStreamResponse("c1", t, "created")
    \/ \E t \in TokenTurns : SmartStoreConversation("c1", t, TRUE)

SpecTokens == InitMemory /\ [][NextTokens]_vars

(***************************************************************************)
(* SpecFormat: one conversation receives turns whose texts are "a" or      *)
(* "a|a", some of them more than once, and its context is read.            *)
(***************************************************************************)
FormatTurns ==
    LET a == << Run("alpha", 1) >>
        aa == << Run("alpha", 1), Run("pipe", 1), Run("alpha", 1) >>
    IN  {Turn(a, a), Turn(aa, a), Turn(a, aa)}

NextFormat ==
    \/ \E t \in FormatTurns :
            /\ requests < MaxFormatTurns
            /\ FinalizeStreamResponse("c1", t, "created")
    \/ \E t \in FormatTurns : SmartStoreConversation("c1", t, TRUE)
    \/ \E short \in {"ok", "failed"} :
            GetConversationContext("u1", Query("who_am_i", "name"), short,
                                   "vector", TRUE, "ok", "text")

SpecFormat == InitMemory /\ [][NextFormat]_vars

(***************************************************************************)
(* SpecRequest: the chat requests arrive as JSON bodies.  The framework    *)
(* builds the ChatRequest of the handler's signature from the body before  *)
(* the handler is called: a body that does not validate is answered with   *)
(* 422 and the handler never runs, any other gets the streaming response.  *)
(***************************************************************************)
Bodies ==
    {Body(m, n, c) : m \in BOOLEAN, c \in BOOLEAN,
                     n \in {0, min_length, max_length, max_length + 1}}

\* POST /chat/stream with this body
ChatStream(body, path, c, parse) ==
    /\ chat.phase \in {"idle", "finished"}
    /\ requests' = requests + 1
    /\ chat' = IF ~ChatRequest(body)
               THEN [NoChat EXCEPT !.body = body, !.status = 422,
                                   !.path = path, !.phase = "finished"]
               ELSE IF parse = "raised"
               THEN [Failed([NoChat EXCEPT !.path = path, !.conv = c], TRUE)
                        EXCEPT !.body = body, !.status = 200]
               ELSE [NoChat EXCEPT !.body = body, !.status = 200,
                                   !.path = path, !.conv = c,
                                   !.phase = "context",
                                   !.trace = << "context" >>]
    /\ UNCHANGED <<enabled, processor, messages, turnList, summaries,
                   compression_queue, tasks, active_compressions, pending,
                   hydrating, trimmed>>
    /\ UNCHANGED <<ltm, classified>>

NextRequest ==
    \/ \E body \in Bodies, path \in {"orchestrator", "endpoint"},
          c \in ChatConversations, parse \in {"ok", "raised"} :
            /\ requests < MaxChatRequests
            /\ ChatStream(body, path, c, parse)
    \/ NextChat

SpecRequest == Init /\ [][NextRequest]_vars

(***************************************************************************)
(* SpecWorker: the queue and its worker while configure switches the tier  *)
(* off and on.  SpecWorkerFair adds what the event loop gives: a sleeping  *)
(* worker wakes up every second, a scheduled coroutine runs, and every     *)
(* call to the LLM comes back.                                             *)
(***************************************************************************)
NextWorker ==
    \/ \E in \in QueueInputs :
            /\ requests < MaxWorkerRequests
            /\ FinalizeStreamResponse(in[1], in[2], "created")
    \/ \E in \in QueueInputs : SmartStoreConversation(in[1], in[2], TRUE)
    \/ \E b \in BOOLEAN : Configure(b)
    \/ ProcessorExit
    \/ ProcessorDequeue
    \/ \E id \in 1..MaxWorkerRequests : ProcessCompressionTaskStart(id)
    \/ \E id \in 1..MaxWorkerRequests, llm \in LLMOutcomes :
            ProcessCompressionTaskFinish(id, llm, TRUE)

SpecWorker == Init /\ [][NextWorker]_vars

SpecWorkerFair ==
    /\ SpecWorker
    /\ WF_vars(ProcessorDequeue)
    /\ WF_vars(ProcessorExit)
    /\ \A id \in 1..MaxWorkerRequests :
          /\ WF_vars(ProcessCompressionTaskStart(id))
          /\ WF_vars(\E llm \in LLMOutcomes :
                         ProcessCompressionTaskFinish(id, llm, TRUE))

(***************************************************************************)
(* Vocabulary of the properties.                                           *)
(***************************************************************************)
\* the step calls _queue_compression_task: a task is minted
Minted == Len(tasks') = Len(tasks) + 1

\* the id of the task the step mints
NewId == Len(tasks) + 1

\* the step is the memory update of the request `in`, with the tier enabled
StoredBy(in) ==
    /\ enabled
    /\ BagIn(in, pending)
    /\ pending' = pending (-) SetToBag({in})

\* the completed turns of a conversation in the relational store, and their
\* token estimate
TurnsOf(c) == get_current_conversation_messages(messages[c], db_limit)

EstimateOf(c) == _count_tokens_for_messages(TurnsOf(c))

IdsIn(queue) == {queue[i].id : i \in 1..Len(queue)}

HasHigh(queue) == \E i \in 1..Len(queue) : queue[i].priority = "high"

HasNormal(queue) == \E i \in 1..Len(queue) : queue[i].priority = "normal"

\* the task of the queue that was enqueued first: ids are minted in order
OldestIn(ids) == CHOOSE id \in ids : \A other \in ids : id <= other

QueueCap == Len(compression_queue) <= max_queue_size

\* the queue is at the cap and a task was evicted to keep it there
QueueCapWitness ==
    /\ Len(compression_queue) = max_queue_size
    /\ \E id \in 1..Len(tasks) : tasks[id].stage = "evicted"

(***************************************************************************)
(* C3.  At every moment at most max_concurrent_compressions tasks are in   *)
(* flight (dequeued and not finished).                                     *)
(***************************************************************************)
ConcurrencyCap == Cardinality(InFlight) <= max_concurrent_compressions

\* the gate is closed: the cap is reached while a task waits in the queue
ConcurrencyCapWitness ==
    /\ Cardinality(InFlight) = max_concurrent_compressions
    /\ compression_queue # << >>

(***************************************************************************)
(* C4.  A task goes queued -> processing -> done or queued -> evicted and  *)
(* nowhere else: it is in the queue exactly while it is queued (so never   *)
(* again once processing, done or evicted), at most once, and every step   *)
(* moves it along one of these edges.  A task that _queue_compression_task *)
(* did not let in (refused or raised) never enters the queue.              *)
(* Processing is the stages scheduled and compressing.                     *)
(***************************************************************************)
QueueHoldsTheQueued ==
    /\ \A id \in 1..Len(tasks) :
          (tasks[id].stage = "queued") <=> (id \in IdsIn(compression_queue))
    /\ \A i, k \in 1..Len(compression_queue) :
          compression_queue[i].id = compression_queue[k].id => i = k

LifecycleEdges ==
    {<<"queued", "scheduled">>, <<"queued", "evicted">>,
     <<"scheduled", "compressing">>, <<"scheduled", "done">>,
     <<"compressing", "done">>}

LifecycleStep ==
    /\ Len(tasks') >= Len(tasks)
    /\ \A id \in 1..Len(tasks) :
          \/ tasks'[id].stage = tasks[id].stage
          \/ <<tasks[id].stage, tasks'[id].stage>> \in LifecycleEdges

TaskLifecycle == [](QueueHoldsTheQueued) /\ [][LifecycleStep]_vars

\* one task ran to its end, another was evicted from the queue
TaskLifecycleWitness ==
    /\ \E id \in 1..Len(tasks) : tasks[id].stage = "done"
    /\ \E id \in 1..Len(tasks) : tasks[id].stage = "evicted"

(***************************************************************************)
(* C5.  With the queue at capacity and a normal-priority task in it,       *)
(* enqueuing a high-priority task evicts exactly the oldest normal task,   *)
(* leaves the length of the queue unchanged and puts the new task at the   *)
(* head.                                                                   *)
(***************************************************************************)
HighEvictsOldestNormalStep ==
    (/\ Minted
     /\ tasks'[NewId].priority = "high"
     /\ Len(compression_queue) >= max_queue_size
     /\ HasNormal(compression_queue))
    => LET normals == {id \in IdsIn(compression_queue) :
                          tasks[id].priority = "normal"}
       IN  /\ Len(compression_queue') = Len(compression_queue)
           /\ Head(compression_queue').id = NewId
           /\ IdsIn(compression_queue) \ IdsIn(compression_queue')
                 = {OldestIn(normals)}

HighEvictsOldestNormal == [][HighEvictsOldestNormalStep]_vars

(***************************************************************************)
(* C6.  With the queue at capacity and every queued task of high priority, *)
(* enqueuing another high-priority task is refused: the new task is not in *)
(* the queue, whose length and contents are unchanged.                     *)
(***************************************************************************)
HighRefusedWhenFullOfHighStep ==
    (/\ Minted
     /\ tasks'[NewId].priority = "high"
     /\ Len(compression_queue) >= max_queue_size
     /\ ~HasNormal(compression_queue))
    => /\ compression_queue' = compression_queue
       /\ NewId \notin IdsIn(compression_queue')
       /\ tasks'[NewId].stage = "refused"

HighRefusedWhenFullOfHigh == [][HighRefusedWhenFullOfHighStep]_vars

\* a task was refused while the queue, all of high priority, stayed full
HighRefusedWitness ==
    /\ \E id \in 1..Len(tasks) : tasks[id].stage = "refused"
    /\ Len(compression_queue) = max_queue_size
    /\ ~HasNormal(compression_queue)

(***************************************************************************)
(* C7.  With the queue at capacity, enqueuing a normal-priority task       *)
(* evicts the oldest task of the queue, the one enqueued earliest, and     *)
(* adds the new task at the back.                                          *)
(***************************************************************************)
NormalEvictsOldestStep ==
    (/\ Minted
     /\ tasks'[NewId].priority = "normal"
     /\ Len(compression_queue) >= max_queue_size)
    => /\ IdsIn(compression_queue) \ IdsIn(compression_queue')
             = {OldestIn(IdsIn(compression_queue))}
       /\ compression_queue'[Len(compression_queue')].id = NewId

NormalEvictsOldest == [][NormalEvictsOldestStep]_vars

(***************************************************************************)
(* C8.  Whenever the worker dequeues a task while a high-priority task is  *)
(* queued, the task it dequeues is of high priority.                       *)
(***************************************************************************)
DequeueHighFirstStep ==
    \A id \in 1..Len(tasks) :
        (/\ tasks[id].stage = "queued"
         /\ tasks'[id].stage = "scheduled"
         /\ HasHigh(compression_queue))
        => tasks[id].priority = "high"

DequeueHighFirst == [][DequeueHighFirstStep]_vars

\* a high-priority task was dequeued ahead of a normal one enqueued earlier
DequeueHighFirstWitness ==
    \E h, n \in 1..Len(tasks) :
        /\ n < h
        /\ tasks[n].priority = "normal" /\ tasks[n].stage = "queued"
        /\ tasks[h].priority = "high" /\ tasks[h].stage = "scheduled"

(***************************************************************************)
(* C9.  As claimed: after a turn write, an estimate >= max_tokens asks for *)
(* a high-priority task (also at exactly max_tokens), else an estimate     *)
(* >= warning_tokens asks for a normal-priority task, else no task.        *)
(***************************************************************************)
EnqueueAtThresholdStep ==
    \A in \in StoreInputs :
        StoredBy(in) =>
            IF EstimateOf(in[1]) >= max_tokens
            THEN Minted /\ tasks'[NewId].priority = "high"
            ELSE IF EstimateOf(in[1]) >= warning_tokens
                 THEN Minted /\ tasks'[NewId].priority = "normal"
                 ELSE tasks' = tasks /\ compression_queue' = compression_queue

EnqueueAtThreshold == [][EnqueueAtThresholdStep]_vars

(***************************************************************************)
(* C9, amended.  After a turn write, an estimate > max_tokens submits a    *)
(* high-priority task, which is at the head of the queue unless the queue  *)
(* was at capacity; else an estimate > warning_tokens submits a            *)
(* normal-priority task, which is at the back of the queue; else no task   *)
(* is submitted.  Exactly max_tokens gives a normal-priority task, exactly *)
(* warning_tokens none.                                                    *)
(***************************************************************************)
EnqueueAboveThresholdStep ==
    \A in \in StoreInputs :
        StoredBy(in) =>
            IF EstimateOf(in[1]) > max_tokens
            THEN /\ Minted
                 /\ tasks'[NewId].priority = "high"
                 /\ Len(compression_queue) < max_queue_size
                       => Head(compression_queue').id = NewId
            ELSE IF EstimateOf(in[1]) > warning_tokens
                 THEN /\ Minted
                      /\ tasks'[NewId].priority = "normal"
                      /\ compression_queue'[Len(compression_queue')].id = NewId
                 ELSE tasks' = tasks /\ compression_queue' = compression_queue

EnqueueAboveThreshold == [][EnqueueAboveThresholdStep]_vars

\* a conversation whose estimate is exactly max_tokens got a normal task
EnqueueAboveThresholdWitness ==
    \E id \in 1..Len(tasks) :
        /\ tasks[id].conversation_id = "c1"
        /\ tasks[id].priority = "normal"
        /\ EstimateOf("c1") = max_tokens

(***************************************************************************)
(* C10.  As claimed: a write to a conversation that holds a single turn    *)
(* never enqueues a compression task, however long the turn.               *)
(***************************************************************************)
SingleTurnNeverEnqueuesStep ==
    \A in \in StoreInputs :
        (StoredBy(in) /\ Len(TurnsOf(in[1])) = 1) => tasks' = tasks

SingleTurnStep ==
    /\ \A in \in StoreInputs :
          (StoredBy(in) /\ Len(TurnsOf(in[1])) = 1)
          => (Minted <=> EstimateOf(in[1]) > warning_tokens)
    /\ \A id \in 1..Len(tasks) :
          (/\ tasks[id].stage = "scheduled"
           /\ tasks'[id].stage # "scheduled"
           /\ Len(TurnsOf(tasks[id].conversation_id)) = 1)
          => /\ tasks'[id].stage = "done"
             /\ summaries' = summaries
             /\ turnList' = turnList

Compressed(id) ==
    /\ id \in 1..Len(tasks)
    /\ tasks[id].stage = "compressing"
    /\ tasks'[id].stage = "done"

TurnsReadBy(id) ==
    get_current_conversation_messages(
        SubSeq(messages[tasks[id].conversation_id], 1, tasks[id].rows), db_limit)

\* newest first, as LPUSH leaves them
EntriesOf(pairs) ==
    [i \in 1..Len(pairs) |->
        Entry(pairs[Len(pairs) - i + 1].user_message,
              pairs[Len(pairs) - i + 1].ai_response)]

(***************************************************************************)
(* C11.  After a compression task has completed for a conversation of      *)
(* n > 10 turns, the stored turn list holds exactly the 10 most recent     *)
(* turns.                                                                  *)
(***************************************************************************)
KeepsTenMostRecentStep ==
    \A id \in 1..Len(tasks) :
        (Compressed(id) /\ Len(TurnsReadBy(id)) > max_keep_turns)
        => turnList'[tasks[id].conversation_id]
              = EntriesOf(LastN(TurnsReadBy(id), max_keep_turns))

KeepsTenMostRecent == [][KeepsTenMostRecentStep]_vars

(***************************************************************************)
(* C12.  Twelve seeded turns of more than max_tokens, then a 13th write:   *)
(* once the worker has run the task and the LLM has answered with text,    *)
(* the L2 and the L1 summary keys of the conversation exist.               *)
(***************************************************************************)
SummariesAfterTriggerStep ==
    \A id \in 1..Len(tasks) :
        (/\ Compressed(id)
         /\ Len(TurnsReadBy(id)) = 13
         /\ _count_tokens_for_messages(SubSeq(TurnsReadBy(id), 1, 12))
               > max_tokens
         /\ tasks'[id].reply = "text")
        => {<<tasks[id].conversation_id, "L2">>,
            <<tasks[id].conversation_id, "L1">>} \subseteq summaries'

SummariesAfterTrigger == [][SummariesAfterTriggerStep]_vars

(***************************************************************************)
(* C13.  As claimed: a compression task tries a summary level only if the  *)
(* cap of the level (L1: 2, L2: 5, L3: 10 turns) does not exceed the       *)
(* number of turns to summarize; a level whose cap exceeds it is skipped.  *)
(***************************************************************************)
LevelNeedsItsCapStep ==
    \A id \in 1..Len(tasks) :
        Compressed(id)
        => \A l \in tasks'[id].attempted :
              layer_max_turns(l) <= Len(MessagesToSummarize(TurnsReadBy(id)))

LevelNeedsItsCap == [][LevelNeedsItsCapStep]_vars

(***************************************************************************)
(* C13, amended.  A compression task tries L3 exactly when there are at    *)
(* least 8 turns to summarize, L2 exactly when there are at least 3 and L1 *)
(* exactly when there is at least 1 (the thresholds are 8, 3 and 1, not    *)
(* the caps 10, 5 and 2); it stores a summary for no level it did not try. *)
(***************************************************************************)
LevelNeedsItsThresholdStep ==
    \A id \in 1..Len(tasks) :
        Compressed(id)
        => LET n == Len(MessagesToSummarize(TurnsReadBy(id)))
               c == tasks[id].conversation_id
           IN  /\ ("L3" \in tasks'[id].attempted) <=> (n >= 8)
               /\ ("L2" \in tasks'[id].attempted) <=> (n >= 3)
               /\ ("L1" \in tasks'[id].attempted) <=> (n >= 1)
               /\ \A l \in Layers :
                     (<<c, l>> \in summaries' /\ <<c, l>> \notin summaries)
                     => l \in tasks'[id].attempted

LevelNeedsItsThreshold == [][LevelNeedsItsThresholdStep]_vars

\* a finished task tried L2 and L1 only: L3 was skipped
LevelNeedsItsThresholdWitness ==
    \E id \in 1..Len(tasks) :
        /\ tasks[id].stage = "done"
        /\ tasks[id].attempted = {"L1", "L2"}
        /\ Len(TurnsOf(tasks[id].conversation_id)) <= 14

(***************************************************************************)
(* Vocabulary of the stream properties.                                    *)
(***************************************************************************)
PhaseNames == {"context", "classify", "stream", "persist", "memory_update"}

IsPhaseOrEnd(x) == x \in PhaseNames \cup {"end"}

\* the phases the request entered, and its end event, in order
PhasesOf(trace) == SelectSeq(trace, IsPhaseOrEnd)

IsPrefix(s, t) == Len(s) <= Len(t) /\ s = SubSeq(t, 1, Len(s))

Positions(trace, x) == {i \in 1..Len(trace) : trace[i] = x}

\* the generator of the request has returned
StreamOver == chat.phase = "finished"

ClaimedPhases ==
    << "classify", "context", "stream", "persist", "memory_update", "end" >>

PhasesAsClaimed == IsPrefix(PhasesOf(chat.trace), ClaimedPhases)

(***************************************************************************)
(* C15, amended.  Every request of the orchestrator passes through its     *)
(* phases in the order context, classify, stream, persist, end, memory     *)
(* update, one after the other; a request that fails stops after the phase *)
(* it failed in.  A request of the endpoint goes context, classify,        *)
(* stream, memory update, end.                                             *)
(***************************************************************************)
OrchestratorPhases ==
    << "context", "classify", "stream", "persist", "end", "memory_update" >>

EndpointPhases == << "context", "classify", "stream", "memory_update", "end" >>

PhasesInOrder ==
    /\ chat.path = "orchestrator"
          => IsPrefix(PhasesOf(chat.trace), OrchestratorPhases)
    /\ chat.path = "endpoint"
          => IsPrefix(PhasesOf(chat.trace), EndpointPhases)

\* a request of the orchestrator went through all its phases
PhasesInOrderWitness ==
    /\ chat.path = "orchestrator"
    /\ PhasesOf(chat.trace) = OrchestratorPhases

(***************************************************************************)
(* C16.  As claimed: an error before the stream phase of a request, in the *)
(* normal or in the code-intent path, gives the client a single error      *)
(* event and no other event.                                               *)
(***************************************************************************)
OnlyErrorBeforeStream ==
    chat.pre_error => Events(chat.trace) = << "error" >>

(***************************************************************************)
(* C16, amended.  An exception raised before the stream phase of a request *)
(* ends the stream with exactly one error event; it is the only event in   *)
(* the normal path, and in the code-intent path the notice that the        *)
(* request is being processed (one content event) precedes it.             *)
(***************************************************************************)
ErrorBeforeStream ==
    chat.pre_error =>
        /\ StreamOver
        /\ Events(chat.trace) = IF chat.intent = "code"
                                THEN << "content", "error" >>
                                ELSE << "error" >>

\* the code generation of a code-intent request raised
ErrorBeforeStreamWitness ==
    /\ chat.pre_error
    /\ chat.intent = "code"
    /\ Positions(chat.trace, "classify") # {}

(***************************************************************************)
(* C17.  An error while the reply is streamed: the stream is the content   *)
(* chunks already flushed followed by an error event, its last event.      *)
(***************************************************************************)
StreamErrorEndsWithError ==
    (chat.stream_error /\ StreamOver) =>
        LET ev == Events(chat.trace)
        IN  /\ ev # << >>
            /\ ev[Len(ev)] = "error"
            /\ \A i \in 1..(Len(ev) - 1) : ev[i] = "content"

(***************************************************************************)
(* C18.  The memory update of a request starts only after the whole stream *)
(* of the request, its end event included, was handed to the client.       *)
(***************************************************************************)
MemoryUpdateAfterEnd ==
    \A i \in Positions(chat.trace, "memory_update") :
        \E j \in Positions(chat.trace, "end") : j < i

(***************************************************************************)
(* C19.  When the sandbox fails to run the generated code, the stream      *)
(* carries an error event.                                                 *)
(***************************************************************************)
SandboxFailureGivesError ==
    (chat.sandbox = "failed" /\ StreamOver)
    => Positions(chat.trace, "error") # {}

(***************************************************************************)
(* C20.  No exception leaves the stream generator: whichever collaborator  *)
(* fails, the generator emits an error event or carries on, and returns.   *)
(***************************************************************************)
NoExceptionEscapes == chat.escaped = FALSE

\* the reply stream failed, an insert failed, and the generator returned
NoExceptionEscapesWitness ==
    /\ StreamOver
    /\ chat.stream_error
    /\ chat.persisted = "user_insert_failed"
    /\ Positions(chat.trace, "memory_update") # {}

(***************************************************************************)
(* C21.  A failure inside a compression job never ends the worker loop:    *)
(* the step that ends a job, failed or not, gives its slot back and leaves *)
(* the loop, the queue and the other tasks as they are; once a job has     *)
(* failed the loop is still running, the counter is the number of jobs in  *)
(* flight, and the worker takes the next job as soon as one waits.         *)
(***************************************************************************)
JobEnds(id) ==
    /\ tasks[id].stage \in {"scheduled", "compressing"}
    /\ tasks'[id].stage = "done"

WorkerSurvivesStep ==
    \A id \in 1..Len(tasks) :
        JobEnds(id) =>
            /\ active_compressions' = active_compressions - 1
            /\ processor = "sleeping" /\ processor' = "sleeping"
            /\ enabled' = enabled
            /\ compression_queue' = compression_queue
            /\ \A other \in 1..Len(tasks) :
                  other # id => tasks'[other] = tasks[other]

WorkerAlive ==
    (\E id \in 1..Len(tasks) : JobFailed(id)) =>
        /\ processor = "sleeping"
        /\ active_compressions = Cardinality(InFlight)
        /\ (enabled /\ CanDequeue) => ENABLED ProcessorDequeue

WorkerSurvives == []WorkerAlive /\ [][WorkerSurvivesStep]_vars

\* a job has failed, no job is in flight, a later job waits in the queue
\* and the worker can take it
WorkerSurvivesWitness ==
    /\ active_compressions = 0
    /\ \E i \in 1..Len(tasks) :
          /\ JobFailed(i)
          /\ \E k \in 1..Len(compression_queue) : compression_queue[k].id > i
    /\ ENABLED ProcessorDequeue

(***************************************************************************)
(* C31.  Appending a turn never lowers the token estimate: whenever a step *)
(* adds one completed turn to a conversation, the estimate of the          *)
(* conversation after the step is at least the estimate before it.         *)
(***************************************************************************)
TokenEstimateMonotoneStep ==
    \A c \in Conversations :
        (/\ Len(TurnsOf(c)') = Len(TurnsOf(c)) + 1
         /\ SubSeq(TurnsOf(c)', 1, Len(TurnsOf(c))) = TurnsOf(c))
            => EstimateOf(c)' >= EstimateOf(c)

TokenEstimateMonotone == [][TokenEstimateMonotoneStep]_vars

(***************************************************************************)
(* C32.  The recent block rendered from a turn list that holds duplicate   *)
(* (message, response) entries shows each distinct pair of the window      *)
(* exactly once, in the order of the first occurrences.                    *)
(***************************************************************************)
\* the place of the first entry of the window with this pair
FirstPlace(window, e) ==
    CHOOSE i \in 1..Len(window) :
        /\ window[i] = e
        /\ \A j \in 1..(i - 1) : window[j] # e

EachPairOnceInOrder ==
    (ltm.last.op = "context" /\ ltm.last.source = "redis") =>
        LET window == get_recent_conversations(
                          turnList[ConversationOf(ltm.last.user)],
                          context_limit)
            block == ltm.last.short_block
        IN  /\ \A i \in 1..Len(window) :
                  Cardinality({k \in 1..Len(block) : block[k] = window[i]}) = 1
            /\ \A k \in 1..Len(block) :
                  \E i \in 1..Len(window) : window[i] = block[k]
            /\ \A k, m \in 1..Len(block) :
                  k < m => FirstPlace(window, block[k])
                              < FirstPlace(window, block[m])

(***************************************************************************)
(* C33.  A chat request whose message is empty or longer than 4000         *)
(* characters, or that has no conversationId, is answered with a           *)
(* validation error and no event of a stream is ever produced for it.      *)
(***************************************************************************)
InvalidRequestRejected ==
    (/\ chat.status # 0
     /\ \/ chat.body.has_message /\ chat.body.message_length = 0
        \/ chat.body.has_message /\ chat.body.message_length > 4000
        \/ ~chat.body.has_conversationId)
        => /\ chat.status = 422
           /\ chat.trace = << >>
           /\ chat.phase = "finished"

InvalidRequestRejectedWitness ==
    /\ chat.status = 422
    /\ chat.body.has_message
    /\ chat.body.has_conversationId
    /\ chat.body.message_length = 4001

(***************************************************************************)
(* C34.  A job whose LLM answers with text generates its summaries in the  *)
(* order L3, L2, L1, and each summary it produced is the prior summary     *)
(* handed to the generation of the next smaller level.                     *)
(***************************************************************************)
LevelRank(l) == CASE l = "L3" -> 3 [] l = "L2" -> 2 [] OTHER -> 1

SummariesChained ==
    \A id \in 1..Len(tasks) :
        (tasks[id].stage = "done" /\ tasks[id].reply = "text") =>
            LET calls == tasks[id].calls
            IN  /\ \A i \in 1..Len(calls) : calls[i].summary # None
                /\ \A i \in 1..(Len(calls) - 1) :
                      /\ LevelRank(calls[i].layer)
                             > LevelRank(calls[i + 1].layer)
                      /\ calls[i + 1].existing_summary = calls[i].summary

RemovalNeedsStoredSummaryStep ==
    \A id \in 1..Len(tasks) :
        (tasks[id].stage = "compressing" /\ tasks'[id].stage = "done") =>
            LET c == tasks[id].conversation_id
                stored == {tasks'[id].calls[i].layer :
                              i \in {k \in 1..Len(tasks'[id].calls) :
                                         tasks'[id].calls[k].summary # None}}
            IN  \/ turnList'[c] = turnList[c]
                \/ /\ stored # {}
                   /\ \A l \in stored : <<c, l>> \in summaries'

NoFurtherEnqueue ==
    /\ requests = MaxWorkerRequests
    /\ pending = EmptyBag

Drained ==
    /\ compression_queue = << >>
    /\ InFlight = {}
    /\ active_compressions = 0

QueueDrains == (NoFurtherEnqueue /\ enabled) ~> (Drained \/ ~enabled)

(***************************************************************************)
(* C38.  As claimed: when the worker dequeues a job, no job of the same    *)
(* priority that was enqueued before it is still waiting in the queue.     *)
(* Ids are minted in the order of the enqueues.                            *)
(***************************************************************************)
Dequeued(id) ==
    /\ tasks[id].stage = "queued"
    /\ tasks'[id].stage = "scheduled"

EqualPriorityFifoStep ==
    \A id \in 1..Len(tasks) :
        Dequeued(id) =>
            \A other \in IdsIn(compression_queue) :
                tasks[other].priority = tasks[id].priority => other >= id

NormalPriorityFifoStep ==
    \A id \in 1..Len(tasks) :
        (Dequeued(id) /\ tasks[id].priority = "normal") =>
            \A other \in IdsIn(compression_queue) :
                tasks[other].priority = "normal" => other >= id

WorkerRunsWhileEnabled ==
    (enabled /\ compression_queue # << >>) => processor = "sleeping"

(***************************************************************************)
(* C40.  In every state the counter active_compressions is the number of   *)
(* jobs that were dequeued and are not over, and it is not negative.       *)
(***************************************************************************)
CounterIsInFlight ==
    /\ active_compressions = Cardinality(InFlight)
    /\ active_compressions >= 0

\* one job is over, another was dequeued and is not
CounterIsInFlightWitness ==
    /\ active_compressions = 1
    /\ \E id \in 1..Len(tasks) : tasks[id].stage = "done"
    /\ \E id \in 1..Len(tasks) : tasks[id].stage = "compressing"

TypeOK ==
    /\ enabled \in BOOLEAN
    /\ processor \in {"not_started", "sleeping", "exited"}
    /\ active_compressions \in Nat
    /\ hydrating \subseteq Conversations
    /\ trimmed \subseteq Conversations
    /\ chat.phase \in {"idle", "context", "classify", "codegen", "stream",
                       "streaming", "created", "ended", "saved", "finished"}
    /\ ltm.last.op \in {"none", "process", "context"}
    /\ ltm.last.importance \in 0..1000
    /\ \A p \in ltm.vectors : p.importance_score >= min_importance_score
    /\ \A k \in UpdateSlots :
          ltm.updates[k].stage \in {"idle", "read", "written"}
    /\ classified.intent \in {"none", "file", "web", "search", "code", "normal"}

====
